---- MODULE Spec2Model ----
(***************************************************************************)
(* Budget routes of the WanderGenius backend (express + prisma):           *)
(*   GET    /:tripId                     budget with settlement (debts)    *)
(*   POST   /:tripId/setup               create budget and participants    *)
(*   POST   /:tripId/expense             record an expense                 *)
(*   DELETE /:tripId/expense/:expenseId  remove an expense                 *)
(*                                                                         *)
(* Money.  The code computes with IEEE doubles.  The model computes on an  *)
(* exact grid: every amount is an integer number of grid units, one cent   *)
(* being Scale units, Scale the least common multiple of every possible    *)
(* length of splitWithIds, so that amount / splitBetween.length is exact   *)
(* for amounts given in cents.  The drift of the doubles (about 1e-16      *)
(* relative per operation) is far below one grid unit and is not           *)
(* modelled on the grid; comparisons against 0.01 are comparisons against  *)
(* Cent.  Where the last bit of a balance is what is asked (DoubleSpec),   *)
(* the balances are computed on doubles, rounding as IEEE 754 does.        *)
(***************************************************************************)
EXTENDS Integers, Sequences, FiniteSets, TLC

\* ------------------------------------------------------------------ bounds
MaxParticipants == 3
MaxExpenses == 2
MaxClients == 2
MaxNameList == 1

\* ------------------------------------------------------------ arithmetic
RECURSIVE Gcd(_, _)
Gcd(a, b) == IF b = 0 THEN a ELSE Gcd(b, a % b)

RECURSIVE LcmUpTo(_)
LcmUpTo(n) == IF n <= 1 THEN 1 ELSE (LcmUpTo(n - 1) * n) \div Gcd(LcmUpTo(n - 1), n)

\* splitWithIds holds at most every participant of the budget plus one id
\* that is no participant of it.
MaxSplit == MaxParticipants + 1
Scale == LcmUpTo(MaxSplit)
Cent == Scale

Abs(x) == IF x < 0 THEN -x ELSE x
\* Half of the smaller of the two instead of the smaller.
Min_Half(a, b) == (IF a < b THEN a ELSE b) \div 2
\* The larger of the two instead of the smaller.
Min_Larger(a, b) == IF a < b THEN b ELSE a
Min(a, b) == IF a < b THEN a ELSE b

\* A threshold of 0.005 instead of 0.01.
Epsilon_Half == Cent \div 2

\* Small threshold for floating point errors: 0.01
Epsilon == Cent

\* toFixed taken to cut the digits off instead of rounding.
ToFixed2_Truncate(x) == (x \div Cent) * Cent

\* Number(amount.toFixed(2)): the nearest multiple of 0.01, the larger one of
\* two equally near (ECMAScript Number.prototype.toFixed), for amount >= 0.
ToFixed2(x) == ((2 * x + Cent) \div (2 * Cent)) * Cent

\* ------------------------------------------------------------------ data
Users == {"u1", "u2"}
\* PlannedTrip rows: the trips that exist, and the userId of each.
Trips == {"t1", "t2"}
TripOwner == [t \in Trips |-> IF t = "t1" THEN "u1" ELSE "u2"]
\* Trip ids the requests of the model name: a trip that exists and one that
\* is no trip.  Trip "t2" is only there to have a budget whose participants
\* are not participants of the budget of "t1".
TripIds == {"t0", "t1"}

\* Participant names.  "Me" is the name router.post('/:tripId/setup') adds.
AllNames == <<"Me", "B", "C", "D", "E">>
Names == {AllNames[k] : k \in 1..MaxParticipants}

\* TripBudget.id: one budget per trip at most (TripBudget_tripId_key), and
\* no route deletes a budget, so the id is modelled by the trip's.
BudgetIdOf(tripId) == tripId
\* TripParticipant.id: unique per (budgetId, name)
\* (TripParticipant_budgetId_name_key).
ParticipantIdOf(budgetId, name) == <<budgetId, name>>
\* An id that is a participant of no budget of the model: splitWithIds is a
\* TEXT[] without a foreign key.
GhostId == <<"none", "X">>

NameIndex(n) == CHOOSE k \in 1..Len(AllNames) : AllNames[k] = n
IdRank(id) == IF id = GhostId THEN 0 ELSE NameIndex(id[2])

RECURSIVE SeqOfIds(_)
\* The ids of S as an array, without repetition.
SeqOfIds(S) ==
    IF S = {} THEN <<>>
    ELSE LET x == CHOOSE y \in S : \A z \in S : IdRank(y) <= IdRank(z)
         IN  <<x>> \o SeqOfIds(S \ {x})

Range(s) == {s[k] : k \in DOMAIN s}

\* Every order in which a query without orderBy can return the rows of S.
Orders(S) ==
    {s \in [1..Cardinality(S) -> S] : Range(s) = S}

\* --------------------------------------------------- balance aggregation
\* balances = {}; participants.forEach(p => balances[p.id] = {name, amount: 0})
\* The object keeps the insertion order of its keys: a sequence.
InitBalances(plist) ==
    [k \in DOMAIN plist |-> [id |-> plist[k].id, name |-> plist[k].name, amount |-> 0]]

\* balances[id] created when it is missing:
\* (balances[id] ||= { name: '', amount: 0 }).amount += x
AddIfKnown_OrCreate(bal, id, x) ==
    IF \E k \in DOMAIN bal : bal[k].id = id
    THEN [k \in DOMAIN bal |->
             IF bal[k].id = id THEN [bal[k] EXCEPT !.amount = @ + x] ELSE bal[k]]
    ELSE Append(bal, [id |-> id, name |-> "", amount |-> x])

\* if (balances[id]) balances[id].amount += x
AddIfKnown(bal, id, x) ==
    [k \in DOMAIN bal |->
        IF bal[k].id = id THEN [bal[k] EXCEPT !.amount = @ + x] ELSE bal[k]]

RECURSIVE DebitAll(_, _, _)
\* splitBetween.forEach(id => { if (balances[id]) balances[id].amount -= splitAmount })
DebitAll(bal, ids, splitAmount) ==
    IF ids = <<>> THEN bal
    ELSE DebitAll(AddIfKnown(bal, Head(ids), -splitAmount), Tail(ids), splitAmount)

\* The payer credited before the test on the length of the split set.
ApplyExpense_CreditAlways(bal, expense) ==
    LET credited == AddIfKnown(bal, expense.paidById, expense.amount)
    IN  IF Len(expense.splitWithIds) > 0
        THEN DebitAll(credited, expense.splitWithIds,
                      expense.amount \div Len(expense.splitWithIds))
        ELSE credited

\* The payer credited in full and left out of the debits.
ApplyExpense_PayerNotDebited(bal, expense) ==
    IF Len(expense.splitWithIds) > 0
    THEN LET splitAmount == expense.amount \div Len(expense.splitWithIds)
             others == SelectSeq(expense.splitWithIds, LAMBDA id : id # expense.paidById)
         IN  DebitAll(AddIfKnown(bal, expense.paidById, expense.amount), others, splitAmount)
    ELSE bal

\* The body of budget.expenses.forEach(expense => ...)
ApplyExpense(bal, expense) ==
    IF Len(expense.splitWithIds) > 0
    THEN LET splitAmount == expense.amount \div Len(expense.splitWithIds)
         IN  DebitAll(AddIfKnown(bal, expense.paidById, expense.amount),
                      expense.splitWithIds, splitAmount)
    ELSE bal

RECURSIVE Aggregate(_, _)
\* budget.expenses.forEach(expense => ...)
Aggregate(bal, elist) ==
    IF elist = <<>> THEN bal
    ELSE Aggregate(ApplyExpense(bal, Head(elist)), Tail(elist))

ComputeBalances(plist, elist) == Aggregate(InitBalances(plist), elist)

\* ------------------------------------------------------- debt resolution
IsDebtor(b) == b.amount < -Epsilon
IsCreditor(b) == b.amount > Epsilon

Debtors(bal) == SelectSeq(bal, IsDebtor)
Creditors(bal) == SelectSeq(bal, IsCreditor)

\* The comparators of the two sorts: a negative value puts a before b.
\* debtors.sort((a, b) => a.amount - b.amount)
DebtorCompare(a, b) == a.amount - b.amount
\* creditors.sort((a, b) => b.amount - a.amount)
CreditorCompare(a, b) == b.amount - a.amount

Compare(desc, a, b) == IF desc THEN CreditorCompare(a, b) ELSE DebtorCompare(a, b)

RECURSIVE InsertSorted(_, _, _)
\* x into the sorted s, after every element it does not come before.
InsertSorted(s, x, desc) ==
    IF s = <<>> THEN <<x>>
    ELSE IF Compare(desc, x, Head(s)) < 0 THEN <<x>> \o s
    ELSE <<Head(s)>> \o InsertSorted(Tail(s), x, desc)

RECURSIVE StableSort(_, _)
\* Array.prototype.sort is stable: equal elements keep their order.
StableSort(s, desc) ==
    IF s = <<>> THEN <<>>
    ELSE InsertSorted(StableSort(SubSeq(s, 1, Len(s) - 1), desc), s[Len(s)], desc)

SortDebtors(s) == StableSort(s, FALSE)
\* The creditors sorted as the debtors are, the smallest first.
SortCreditors_Ascending(s) == StableSort(s, FALSE)
SortCreditors(s) == StableSort(s, TRUE)

RECURSIVE TotalSpent_SplitOnly(_)
\* The sum taken over the expenses the balance loop counts (a split set
\* that is not empty) instead of over all of them.
TotalSpent_SplitOnly(elist) ==
    IF elist = <<>> THEN 0
    ELSE TotalSpent_SplitOnly(Tail(elist))
             + (IF Len(elist[1].splitWithIds) > 0 THEN elist[1].amount ELSE 0)

\* const totalSpent = budget.expenses.reduce((sum, e) => sum + e.amount, 0)
RECURSIVE TotalSpent(_)
TotalSpent(elist) ==
    IF elist = <<>> THEN 0 ELSE TotalSpent(SubSeq(elist, 1, Len(elist) - 1)) + elist[Len(elist)].amount

\* ----------------------------------------------------------------- state
VARIABLES
    tripBudget,       \* table TripBudget: rows [id, tripId, totalBudget]
    tripParticipant,  \* table TripParticipant: rows [id, budgetId, name]
    expense,          \* table Expense: rows [id, budgetId, amount, paidById, splitWithIds, date]
    clock,            \* the number of Expense rows created so far (id and date of the next)
    pend,             \* per client: the request that awaits its next query, or Idle
    active,           \* the client whose GET handler is in its synchronous part, or 0
    loaded,           \* GET: the budget found, [totalBudget, participants, expenses]
    balances,         \* GET: const balances
    debtors,          \* GET: const debtors (its elements are written by the loop)
    creditors,        \* GET: const creditors
    i,                \* GET: debtor index (from 1)
    j,                \* GET: creditor index (from 1)
    debts,            \* GET: const debts
    response,         \* the last response sent
    shown,            \* a client's copy of the last budget it was sent
    tripCollaborator, \* table TripCollaborator: rows [id, tripId, userId, email, role, inviteToken, status]
    activityVote,     \* table ActivityVote: rows [id, tripId, day, activityIndex, userId, vote]
    itinerary,        \* PlannedTrip.itinerary of trip "t1": day plans [day, activities]
    call              \* per user: the collaboration request in flight, or the last answer

db == <<tripBudget, tripParticipant, expense, clock>>
locals == <<loaded, balances, debtors, creditors, i, j, debts>>
collab == <<tripCollaborator, activityVote, itinerary, call>>
vars == <<tripBudget, tripParticipant, expense, clock, pend, active,
          loaded, balances, debtors, creditors, i, j, debts, response, shown,
          tripCollaborator, activityVote, itinerary, call>>

Clients == 1..MaxClients
Idle == [op |-> "idle", userId |-> "", tripId |-> ""]
NoLoaded == [totalBudget |-> 0, participants |-> <<>>, expenses |-> <<>>]

\* A response: the request it answers (client, op, userId, tripId and, where
\* the route reads them, req.params.expenseId and req.body.participants as
\* items), the status and the fields of the JSON body that the model keeps.
\* participants is the set of the rows returned (the order of the JSON array
\* is not kept); rows holds the row a write returns.
NoResponse ==
    [client |-> 0, op |-> "none", userId |-> "", tripId |-> "", expenseId |-> 0,
     items |-> <<>>, status |-> 0,
     error |-> "", notSetup |-> FALSE, success |-> FALSE,
     totalBudget |-> 0, participants |-> {}, expenses |-> <<>>,
     totalSpent |-> 0, remaining |-> 0, debts |-> <<>>, rows |-> {}]

\* Nothing has been shown; clock is the value of clock when it was sent.
NoShown == [view |-> NoResponse, clock |-> 0]

Reply(c, op, u, t, status, error) ==
    [NoResponse EXCEPT !.client = c, !.op = op, !.userId = u, !.tripId = t,
                       !.status = status, !.error = error]

LocalsReset ==
    /\ loaded' = NoLoaded
    /\ balances' = <<>>
    /\ debtors' = <<>>
    /\ creditors' = <<>>
    /\ i' = 1
    /\ j' = 1
    /\ debts' = <<>>

\* No handler is in a synchronous part: the event loop can run a callback.
Free == active = 0

\* The users of the collaboration routes: the owner of trip "t1" and two
\* others.  Each user has one request in flight at most.
CollabUsers == {"u1", "u2", "u3"}

\* No request of the user yet.  A request in flight keeps what its handler
\* holds across an await; an answered one keeps the status and the message,
\* error or action of its response.
NoCall ==
    [op |-> "none", stage |-> "idle", id |-> "", day |-> 0, activityIndex |-> 0,
     vote |-> "", existing |-> "", copy |-> <<>>, updates |-> <<>>,
     status |-> 0, message |-> ""]

\* Nothing of the collaboration routes is stored.
NoCollab ==
    /\ tripCollaborator = {}
    /\ activityVote = {}
    /\ itinerary = <<>>
    /\ call = [u \in CollabUsers |-> NoCall]

\* prisma.tripBudget.findFirst({ where: { tripId } }): the rows found (at
\* most one, TripBudget_tripId_key).
BudgetsOf(tripId) == {b \in tripBudget : b.tripId = tripId}
ParticipantsOf(budgetId) == {p \in tripParticipant : p.budgetId = budgetId}
ExpensesOf(budgetId) == {e \in expense : e.budgetId = budgetId}

RECURSIVE ByDateDesc(_)
\* expenses: { orderBy: { date: 'desc' } }
ByDateDesc(S) ==
    IF S = {} THEN <<>>
    ELSE LET x == CHOOSE y \in S : \A z \in S : y.date >= z.date
         IN  <<x>> \o ByDateDesc(S \ {x})

\* ------------------------------------------------------------ GET /:tripId
\* Lines 213-227: findUnique on the trip, 404, 403; then the handler awaits
\* tripBudget.findFirst.
GetBudgetStart(c, u, t) ==
    /\ Free
    /\ UNCHANGED <<shown, collab>>
    /\ pend[c] = Idle
    /\ UNCHANGED <<db, active, locals>>
    /\ IF t \notin Trips
       THEN /\ response' = Reply(c, "get", u, t, 404, "Trip not found")
            /\ UNCHANGED pend
       ELSE IF TripOwner[t] # u
       THEN /\ response' = Reply(c, "get", u, t, 403, "Not authorized to view this budget")
            /\ UNCHANGED pend
       ELSE /\ pend' = [pend EXCEPT ![c] = [op |-> "get", userId |-> u, tripId |-> t]]
            /\ UNCHANGED response

\* The answer for a trip without a budget as an error.
NotSetupReply_NotFound(c) ==
    Reply(c, "get", pend[c].userId, pend[c].tripId, 404, "Budget not found")

\* Lines 245-247: if (!budget) return res.json({ notSetup: true })
NotSetupReply(c) ==
    [Reply(c, "get", pend[c].userId, pend[c].tripId, 200, "") EXCEPT !.notSetup = TRUE]

\* Lines 229-292: findFirst with participants (no orderBy: any order) and
\* expenses by date; notSetup; balances; debtors and creditors, sorted.
GetBudgetLoad(c) ==
    /\ Free
    /\ UNCHANGED <<shown, collab>>
    /\ pend[c].op = "get"
    /\ UNCHANGED db
    /\ IF BudgetsOf(pend[c].tripId) = {}
       THEN /\ response' = NotSetupReply(c)
            /\ pend' = [pend EXCEPT ![c] = Idle]
            /\ UNCHANGED <<active, locals>>
       ELSE \E budget \in BudgetsOf(pend[c].tripId) :
            \E plist \in Orders(ParticipantsOf(budget.id)) :
              LET elist == ByDateDesc(ExpensesOf(budget.id))
                  bal == ComputeBalances(plist, elist)
              IN  /\ loaded' = [totalBudget |-> budget.totalBudget,
                                participants |-> plist, expenses |-> elist]
                  /\ balances' = bal
                  /\ debtors' = SortDebtors(Debtors(bal))
                  /\ creditors' = SortCreditors(Creditors(bal))
                  /\ i' = 1
                  /\ j' = 1
                  /\ debts' = <<>>
                  /\ active' = c
                  /\ UNCHANGED <<pend, response>>

LoopCondition == i <= Len(debtors) /\ j <= Len(creditors)

\* The loop with to: debtor.name in the transfer it pushes.
SettleStep_ToDebtor ==
    /\ active # 0
    /\ UNCHANGED <<shown, collab>>
    /\ LoopCondition
    /\ LET debtor == debtors[i]
           creditor == creditors[j]
           amount == Min(Abs(debtor.amount), creditor.amount)
           debtorAfter == debtor.amount + amount
           creditorAfter == creditor.amount - amount
       IN  /\ debts' = IF amount > Epsilon
                       THEN Append(debts, [from |-> debtor.name, to |-> debtor.name,
                                           amount |-> ToFixed2(amount)])
                       ELSE debts
           /\ debtors' = [debtors EXCEPT ![i].amount = debtorAfter]
           /\ creditors' = [creditors EXCEPT ![j].amount = creditorAfter]
           /\ i' = IF Abs(debtorAfter) < Epsilon THEN i + 1 ELSE i
           /\ j' = IF creditorAfter < Epsilon THEN j + 1 ELSE j
    /\ UNCHANGED <<db, pend, active, loaded, balances, response>>

\* Lines 297-316: one iteration of the matching loop.
SettleStep ==
    /\ active # 0
    /\ UNCHANGED <<shown, collab>>
    /\ LoopCondition
    /\ LET debtor == debtors[i]
           creditor == creditors[j]
           amount == Min(Abs(debtor.amount), creditor.amount)
           debtorAfter == debtor.amount + amount
           creditorAfter == creditor.amount - amount
       IN  /\ debts' = IF amount > Epsilon
                       THEN Append(debts, [from |-> debtor.name, to |-> creditor.name,
                                           amount |-> ToFixed2(amount)])
                       ELSE debts
           /\ debtors' = [debtors EXCEPT ![i].amount = debtorAfter]
           /\ creditors' = [creditors EXCEPT ![j].amount = creditorAfter]
           /\ i' = IF Abs(debtorAfter) < Epsilon THEN i + 1 ELSE i
           /\ j' = IF creditorAfter < Epsilon THEN j + 1 ELSE j
    /\ UNCHANGED <<db, pend, active, loaded, balances, response>>

\* The response with what remains written back to the budget row.
GetBudgetReply_SavesRemaining ==
    /\ active # 0
    /\ ~LoopCondition
    /\ LET totalSpent == TotalSpent(loaded.expenses)
       IN  /\ response' = [Reply(active, "get", pend[active].userId, pend[active].tripId, 200, "")
                               EXCEPT !.totalBudget = loaded.totalBudget,
                                      !.participants = Range(loaded.participants),
                                      !.expenses = loaded.expenses,
                                      !.totalSpent = totalSpent,
                                      !.remaining = loaded.totalBudget - totalSpent,
                                      !.debts = debts]
           /\ tripBudget' = {IF b.tripId = pend[active].tripId
                                THEN [b EXCEPT !.totalBudget = loaded.totalBudget - totalSpent]
                                ELSE b : b \in tripBudget}
    /\ pend' = [pend EXCEPT ![active] = Idle]
    /\ active' = 0
    /\ LocalsReset
    /\ UNCHANGED <<tripParticipant, expense, clock>>

\* Lines 318-326: totalSpent, remaining and the response.
GetBudgetReply ==
    /\ active # 0
    /\ ~LoopCondition
    /\ LET totalSpent == TotalSpent(loaded.expenses)
       IN  response' = [Reply(active, "get", pend[active].userId, pend[active].tripId, 200, "")
                           EXCEPT !.totalBudget = loaded.totalBudget,
                                  !.participants = Range(loaded.participants),
                                  !.expenses = loaded.expenses,
                                  !.totalSpent = totalSpent,
                                  !.remaining = loaded.totalBudget - totalSpent,
                                  !.debts = debts]
    /\ pend' = [pend EXCEPT ![active] = Idle]
    /\ active' = 0
    /\ LocalsReset
    /\ UNCHANGED db

GetBudgetRespond == GetBudgetReply /\ UNCHANGED <<shown, collab>>

\* The response as the client of the budget page receives it: it keeps the
\* budget it is sent.
GetBudgetShow ==
    GetBudgetReply /\ shown' = [view |-> response', clock |-> clock] /\ UNCHANGED collab

\* The setup route with the trip looked up and its owner not compared.
SetupStart_NoOwnerCheck(c, u, t) ==
    /\ Free
    /\ UNCHANGED <<shown, collab>>
    /\ pend[c] = Idle
    /\ UNCHANGED <<db, active, locals>>
    /\ IF t \notin Trips
       THEN /\ response' = Reply(c, "setup", u, t, 403, "Not authorized")
            /\ UNCHANGED pend
       ELSE /\ pend' = [pend EXCEPT ![c] = [op |-> "setup", userId |-> u, tripId |-> t]]
            /\ UNCHANGED response

\* ----------------------------------------------------- POST /:tripId/setup
\* Lines 337-347: findUnique on the trip; a missing trip and a trip of
\* another user both answer 403; then the handler awaits the transaction.
SetupStart(c, u, t) ==
    /\ Free
    /\ UNCHANGED <<shown, collab>>
    /\ pend[c] = Idle
    /\ UNCHANGED <<db, active, locals>>
    /\ IF t \notin Trips \/ TripOwner[t] # u
       THEN /\ response' = Reply(c, "setup", u, t, 403, "Not authorized")
            /\ UNCHANGED pend
       ELSE /\ pend' = [pend EXCEPT ![c] = [op |-> "setup", userId |-> u, tripId |-> t]]
            /\ UNCHANGED response

RECURSIVE Uniq(_)
\* [...new Set(list)]: the first occurrence of each element, in order.
Uniq(list) ==
    IF list = <<>> THEN <<>>
    ELSE LET init == Uniq(SubSeq(list, 1, Len(list) - 1))
             x == list[Len(list)]
         IN  IF x \in Range(init) THEN init ELSE Append(init, x)

\* The names as given, without 'Me' put in front.
SetupNames_AsGiven(items) == Uniq(items)

\* const names = [...new Set(['Me', ...participants])]
SetupNames(items) == Uniq(<<"Me">> \o items)

\* The transaction with no unique key on TripBudget.tripId.
SetupThrows_NoUniqueKey(tripId, participants) ==
    \/ ~participants.iterable
    \/ Len(SetupNames(participants.items)) # Cardinality(Range(SetupNames(participants.items)))

\* What makes the transaction throw: tripBudget.create on
\* TripBudget_tripId_key when the trip has a budget, the spread of a
\* participants that is no array, createMany on
\* TripParticipant_budgetId_name_key when a name is listed twice.
SetupThrows(tripId, participants) ==
    \/ BudgetsOf(tripId) # {}
    \/ ~participants.iterable
    \/ Len(SetupNames(participants.items)) # Cardinality(Range(SetupNames(participants.items)))

\* Lines 349-376: the transaction.  When it throws it rolls back and the
\* catch answers 500.  body.participants is [iterable, items].
SetupCommit(c, totalBudget, participants) ==
    /\ Free
    /\ UNCHANGED <<shown, collab>>
    /\ pend[c].op = "setup"
    /\ pend' = [pend EXCEPT ![c] = Idle]
    /\ UNCHANGED <<expense, clock, active, locals>>
    /\ LET tripId == pend[c].tripId
           budget == [id |-> BudgetIdOf(tripId), tripId |-> tripId, totalBudget |-> totalBudget]
           names == SetupNames(participants.items)
       IN  IF SetupThrows(tripId, participants)
           THEN /\ response' = Reply(c, "setup", pend[c].userId, tripId, 500, "Failed to setup budget")
                /\ UNCHANGED <<tripBudget, tripParticipant>>
           ELSE /\ tripBudget' = tripBudget \cup {budget}
                /\ tripParticipant' = tripParticipant \cup
                       {[id |-> ParticipantIdOf(budget.id, names[k]),
                         budgetId |-> budget.id, name |-> names[k]] : k \in DOMAIN names}
                /\ response' = [Reply(c, "setup", pend[c].userId, tripId, 200, "")
                                   EXCEPT !.rows = {budget},
                                          !.items = participants.items]

\* --------------------------------------------------- POST /:tripId/expense
\* Lines 382-393: findFirst on the budget of the trip, 404; then the handler
\* awaits expense.create.  The caller's identity is not looked at.
ExpenseStart(c, u, t) ==
    /\ Free
    /\ UNCHANGED <<shown, collab>>
    /\ pend[c] = Idle
    /\ UNCHANGED <<db, active, locals>>
    /\ IF BudgetsOf(t) = {}
       THEN /\ response' = Reply(c, "expense", u, t, 404, "Budget not found")
            /\ UNCHANGED pend
       ELSE /\ pend' = [pend EXCEPT ![c] = [op |-> "expense", userId |-> u, tripId |-> t]]
            /\ UNCHANGED response

\* Lines 395-414: expense.create.  Expense_paidById_fkey: paidById must be
\* the id of a TripParticipant row (of any budget), or the create throws and
\* the catch answers 500.
ExpenseCommit(c, amount, paidById, splitWithIds) ==
    /\ Free
    /\ UNCHANGED <<shown, collab>>
    /\ pend[c].op = "expense"
    /\ clock < MaxExpenses
    /\ pend' = [pend EXCEPT ![c] = Idle]
    /\ UNCHANGED <<tripBudget, tripParticipant, active, locals>>
    /\ LET tripId == pend[c].tripId
           row == [id |-> clock + 1, budgetId |-> BudgetIdOf(tripId), amount |-> amount,
                   paidById |-> paidById, splitWithIds |-> splitWithIds, date |-> clock + 1]
       IN  IF paidById \notin {p.id : p \in tripParticipant}
           THEN /\ response' = Reply(c, "expense", pend[c].userId, tripId, 500, "Failed to add expense")
                /\ UNCHANGED <<expense, clock>>
           ELSE /\ expense' = expense \cup {row}
                /\ clock' = clock + 1
                /\ response' = [Reply(c, "expense", pend[c].userId, tripId, 200, "")
                                   EXCEPT !.rows = {row}]

\* ------------------------------------- DELETE /:tripId/expense/:expenseId
\* Lines 418-431: expense.delete by id alone; a missing row throws and the
\* catch answers 500.  Neither the caller nor the tripId is looked at.
DeleteExpense(c, u, t, expenseId) ==
    /\ Free
    /\ UNCHANGED <<shown, collab>>
    /\ pend[c] = Idle
    /\ UNCHANGED <<tripBudget, tripParticipant, clock, pend, active, locals>>
    /\ IF \E e \in expense : e.id = expenseId
       THEN /\ expense' = {e \in expense : e.id # expenseId}
            /\ response' = [Reply(c, "delete", u, t, 200, "")
                               EXCEPT !.expenseId = expenseId, !.success = TRUE]
       ELSE /\ response' = [Reply(c, "delete", u, t, 500, "Failed to delete expense")
                               EXCEPT !.expenseId = expenseId]
            /\ UNCHANGED expense

\* ---------------------------------------------------------------- inputs
\* Request bodies.  Amounts are given in cents.
Cents(n) == n * Cent

SetupBudgets == {Cents(10000)}
RECURSIVE SeqsUpTo(_, _)
SeqsUpTo(S, n) ==
    IF n = 0 THEN {<<>>}
    ELSE LET shorter == SeqsUpTo(S, n - 1)
         IN  shorter \cup {Append(s, x) : s \in shorter, x \in S}
SetupParticipants ==
    {[iterable |-> TRUE, items |-> s] : s \in SeqsUpTo(Names, MaxNameList)}
        \cup {[iterable |-> FALSE, items |-> <<>>]}

ExpenseAmounts == {Cents(5000), Cents(10000)}
KnownIds == {p.id : p \in tripParticipant}
\* splitWithIds: nobody, every participant, or an id that is no participant.
ExpenseSplits(ids) == {<<>>, SeqOfIds(ids), <<GhostId>>}

\* ------------------------------------------------------------ the server
Init ==
    /\ tripBudget = {}
    /\ tripParticipant = {}
    /\ expense = {}
    /\ clock = 0
    /\ pend = [c \in Clients |-> Idle]
    /\ active = 0
    /\ loaded = NoLoaded
    /\ balances = <<>>
    /\ debtors = <<>>
    /\ creditors = <<>>
    /\ i = 1
    /\ j = 1
    /\ debts = <<>>
    /\ response = NoResponse
    /\ shown = NoShown
    /\ NoCollab

Next ==
    \/ \E c \in Clients, u \in Users, t \in TripIds : GetBudgetStart(c, u, t)
    \/ \E c \in Clients : GetBudgetLoad(c)
    \/ SettleStep
    \/ GetBudgetRespond
    \/ \E c \in Clients, u \in Users, t \in TripIds : SetupStart(c, u, t)
    \/ \E c \in Clients, b \in SetupBudgets, ps \in SetupParticipants : SetupCommit(c, b, ps)
    \/ \E c \in Clients, u \in Users, t \in TripIds : ExpenseStart(c, u, t)
    \/ \E c \in Clients, a \in ExpenseAmounts, p \in KnownIds \cup {GhostId},
          sp \in ExpenseSplits(KnownIds) : ExpenseCommit(c, a, p, sp)
    \/ \E c \in Clients, u \in Users, t \in TripIds, e \in 1..MaxExpenses :
          DeleteExpense(c, u, t, e)

Spec == Init /\ [][Next]_vars

\* ------------------------------------------- the settlement of one budget
\* The owner reads the budget of a trip: the stored budget is any budget the
\* write routes can have stored for trip "t1", and it is not written.
SettleAmounts == {Cents(2), Cents(4000), Cents(9000), Cents(10000)}
SplitChoices(ids) == {SeqOfIds(T) : T \in SUBSET (ids \cup {GhostId})}

ParticipantRows(budgetId, names) ==
    {[id |-> ParticipantIdOf(budgetId, n), budgetId |-> budgetId, name |-> n] : n \in names}

ExpenseBodies(ids) ==
    [amount : SettleAmounts, paidById : ids, splitWithIds : SplitChoices(ids)]

ExpenseRows(budgetId, bodies) ==
    {[id |-> k, budgetId |-> budgetId, amount |-> bodies[k].amount,
      paidById |-> bodies[k].paidById, splitWithIds |-> bodies[k].splitWithIds,
      date |-> k] : k \in DOMAIN bodies}

SettleInit ==
    /\ \E b \in SetupBudgets :
         tripBudget = {[id |-> BudgetIdOf("t1"), tripId |-> "t1", totalBudget |-> b]}
    /\ \E names \in SUBSET Names :
         /\ "Me" \in names
         /\ tripParticipant = ParticipantRows(BudgetIdOf("t1"), names)
    /\ \E n \in 0..MaxExpenses :
         /\ clock = n
         /\ \E bodies \in [1..n -> ExpenseBodies({p.id : p \in tripParticipant})] :
              expense = ExpenseRows(BudgetIdOf("t1"), bodies)
    /\ pend = [c \in Clients |-> Idle]
    /\ active = 0
    /\ loaded = NoLoaded
    /\ balances = <<>>
    /\ debtors = <<>>
    /\ creditors = <<>>
    /\ i = 1
    /\ j = 1
    /\ debts = <<>>
    /\ response = NoResponse
    /\ shown = NoShown
    /\ NoCollab

SettleNext ==
    \/ GetBudgetStart(1, TripOwner["t1"], "t1")
    \/ GetBudgetLoad(1)
    \/ SettleStep
    \/ GetBudgetRespond

SettleSpec == SettleInit /\ [][SettleNext]_vars

\* =========================================================== properties
RECURSIVE SumAmounts(_)
\* The sum of the amount fields of a sequence of records.
SumAmounts(s) == IF s = <<>> THEN 0 ELSE s[1].amount + SumAmounts(Tail(s))

\* The handler has computed the balances of the budget it loaded.
Computed == active # 0
\* The matching loop has ended: debts is the list the response will carry.
Settled == active # 0 /\ ~LoopCondition

LoadedIds == {loaded.participants[k].id : k \in DOMAIN loaded.participants}
LoadedNames == {loaded.participants[k].name : k \in DOMAIN loaded.participants}
\* Every paidBy and every member of every splitWith is a known participant.
AllKnown ==
    \A k \in DOMAIN loaded.expenses :
        /\ loaded.expenses[k].paidById \in LoadedIds
        /\ Range(loaded.expenses[k].splitWithIds) \subseteq LoadedIds

BalanceOf(name) ==
    LET k == CHOOSE m \in DOMAIN balances : balances[m].name = name
    IN  balances[k].amount

RECURSIVE PaidBy(_, _)
PaidBy(n, ds) ==
    IF ds = <<>> THEN 0
    ELSE (IF ds[1].from = n THEN ds[1].amount ELSE 0) + PaidBy(n, Tail(ds))
RECURSIVE ReceivedBy(_, _)
ReceivedBy(n, ds) ==
    IF ds = <<>> THEN 0
    ELSE (IF ds[1].to = n THEN ds[1].amount ELSE 0) + ReceivedBy(n, Tail(ds))

\* The balance of each participant after every transfer of debts is made.
AfterTransfers(n) == BalanceOf(n) + PaidBy(n, debts) - ReceivedBy(n, debts)

\* C2 (settlement correctness), as claimed: for zero-sum balances, making
\* every emitted transfer leaves every balance within 0.01 of zero.
C2_SettlesAll ==
    (Settled /\ SumAmounts(balances) = 0)
        => \A n \in LoadedNames : Abs(AfterTransfers(n)) <= Cent

\* C3, as claimed: every emitted transfer has an amount strictly greater
\* than 0.01 that is a multiple of 0.01.
C3_AmountAboveEpsilon ==
    \A k \in DOMAIN debts : debts[k].amount > Cent /\ debts[k].amount % Cent = 0

\* C3, amended: a transfer is emitted only for an unrounded amount strictly
\* greater than 0.01; the emitted amount is a multiple of 0.01 nearest to the
\* unrounded one, and so at least 0.01.
C3_RoundedAmount ==
    [][Len(debts') > Len(debts) =>
        LET unrounded == Min(Abs(debtors[i].amount), creditors[j].amount)
            emitted == debts'[Len(debts')].amount
        IN  /\ unrounded > Cent
            /\ emitted % Cent = 0
            /\ 2 * Abs(emitted - unrounded) <= Cent
            /\ emitted >= Cent]_vars

\* An emitted amount of exactly 0.01.
C3_Witness == Settled /\ \E k \in DOMAIN debts : debts[k].amount = Cent

\* C4 (no self-transfer): no emitted transfer has from = to.
C4_NoSelfTransfer == \A k \in DOMAIN debts : debts[k].from # debts[k].to

C4_Witness == Settled /\ Len(debts) = 2

\* C5 (determinism), as claimed: two reads of the same stored budget with no
\* write in between return the same debts in the same order, the same
\* totalSpent and the same remaining.  (SettleSpec never writes.)
C5_SameOutput ==
    [][(/\ response.op = "get" /\ response.status = 200
        /\ response'.op = "get" /\ response'.status = 200)
        => /\ response'.debts = response.debts
           /\ response'.totalSpent = response.totalSpent
           /\ response'.remaining = response.remaining]_vars

Transfer(from, to, cents) == [from |-> from, to |-> to, amount |-> Cents(cents)]
IdOf(name) == ParticipantIdOf(BudgetIdOf("t1"), name)
Body(e) == [amount |-> e.amount, paidById |-> e.paidById, splitWithIds |-> e.splitWithIds]
LoadedBodies == {Body(loaded.expenses[k]) : k \in DOMAIN loaded.expenses}

\* The scenario of C6; the participant the claim calls A is the one named
\* "Me", which every budget has.
C6_Case ==
    /\ Settled
    /\ LoadedNames = {"Me", "B", "C"}
    /\ Len(loaded.expenses) = 1
    /\ LoadedBodies = {[amount |-> Cents(9000), paidById |-> IdOf("Me"),
                        splitWithIds |-> <<IdOf("Me"), IdOf("B"), IdOf("C")>>]}

\* C6 (single expense): 90 paid by A and split among A, B, C gives the
\* balances A +60, B -30, C -30 and exactly the transfers B pays A 30 and
\* C pays A 30, in either order.
C6_SingleExpense ==
    C6_Case =>
        /\ BalanceOf("Me") = Cents(6000)
        /\ BalanceOf("B") = -Cents(3000)
        /\ BalanceOf("C") = -Cents(3000)
        /\ debts \in {<<Transfer("B", "Me", 3000), Transfer("C", "Me", 3000)>>,
                      <<Transfer("C", "Me", 3000), Transfer("B", "Me", 3000)>>}

C6_Witness == C6_Case /\ Len(debts) = 2

\* The scenario of C7, A being "Me".
C7_Case ==
    /\ Settled
    /\ LoadedNames = {"Me", "B"}
    /\ Len(loaded.expenses) = 2
    /\ LoadedBodies = {[amount |-> Cents(10000), paidById |-> IdOf("Me"),
                        splitWithIds |-> <<IdOf("Me"), IdOf("B")>>],
                       [amount |-> Cents(4000), paidById |-> IdOf("B"),
                        splitWithIds |-> <<IdOf("Me"), IdOf("B")>>]}

\* C7 (two payers): 100 paid by A and 40 paid by B, each split among A and
\* B, gives the balances A +30, B -30 and the single transfer B pays A 30.
C7_TwoPayers ==
    C7_Case =>
        /\ BalanceOf("Me") = Cents(3000)
        /\ BalanceOf("B") = -Cents(3000)
        /\ debts = <<Transfer("B", "Me", 3000)>>

C7_Witness == C7_Case /\ Len(debts) = 1

WithinCent == \A k \in DOMAIN balances : Abs(balances[k].amount) <= Cent

\* C8 (already settled): when every computed balance is within 0.01 of zero,
\* the debts list is empty.
C8_AlreadySettled == (Settled /\ WithinCent) => debts = <<>>

C8_Witness ==
    /\ Settled
    /\ WithinCent
    /\ \E k \in DOMAIN balances : balances[k].amount = Cent
    /\ \E k \in DOMAIN balances : balances[k].amount = -Cent

RECURSIVE SumOfRows(_)
\* The sum of the amounts of a set of Expense rows.
SumOfRows(S) ==
    IF S = {} THEN 0
    ELSE LET e == CHOOSE x \in S : TRUE IN e.amount + SumOfRows(S \ {e})

StoredBudget(tripId) == CHOOSE b \in BudgetsOf(tripId) : TRUE

\* C9 (totals): a GET that reaches the settlement answers 200 with totalSpent
\* the sum of the amounts of the stored expenses of the budget and remaining
\* totalBudget - totalSpent, also when that is negative.
C9_Totals ==
    [][(active # 0 /\ active' = 0) =>
        LET budget == StoredBudget(response'.tripId)
        IN  /\ response'.op = "get"
            /\ response'.status = 200
            /\ response'.totalBudget = budget.totalBudget
            /\ response'.totalSpent = SumOfRows(ExpensesOf(budget.id))
            /\ response'.remaining = budget.totalBudget - SumOfRows(ExpensesOf(budget.id))]_vars

\* totalBudget 100, totalSpent 150, remaining -50.
C9_Witness ==
    /\ response.op = "get"
    /\ response.status = 200
    /\ response.totalBudget = Cents(10000)
    /\ response.totalSpent = Cents(15000)
    /\ response.remaining = -Cents(5000)

NotOwner(u, t) == t \in Trips /\ TripOwner[t] # u

\* C10 (authorization): a GET or setup request of a user who does not own the
\* trip is answered 403; it never gets past the ownership check (no query on
\* the budget, no balance computation, no transaction is run for it), and the
\* step that answers 403 changes no table.
C10_Authorization ==
    /\ [](/\ (response.op \in {"get", "setup"} /\ NotOwner(response.userId, response.tripId))
              => response.status = 403
          /\ \A c \in Clients :
               pend[c].op \in {"get", "setup"} => ~NotOwner(pend[c].userId, pend[c].tripId))
    /\ [][(response'.status = 403 /\ response' # response)
              => UNCHANGED <<db, pend, active, locals>>]_vars

\* A non-owner's setup answered 403 while the owner's budget is stored.
C10_Witness ==
    /\ response.op = "setup"
    /\ response.status = 403
    /\ NotOwner(response.userId, response.tripId)
    /\ BudgetsOf(response.tripId) # {}
    /\ expense # {}

\* ------------------------------------------------------------------- C11
\* C11 (not found): a request that names something that does not exist is
\* answered 404 and changes no table: a GET or a setup for a trip that does
\* not exist, an expense for a trip that has no budget, and a delete of an
\* expense id that no row has.
C11_NotFound ==
    [][/\ (/\ response' # response
           /\ response'.op \in {"get", "setup"}
           /\ response'.tripId \notin Trips)
              => (response'.status = 404 /\ UNCHANGED db)
       /\ (/\ response' # response
           /\ response'.op = "expense"
           /\ BudgetsOf(response'.tripId) = {})
              => (response'.status = 404 /\ UNCHANGED db)
       /\ (/\ response' # response
           /\ response'.op = "delete"
           /\ ~\E e \in expense : e.id = response'.expenseId)
              => (response'.status = 404 /\ UNCHANGED db)]_vars

\* ------------------------------------------------------------------- C12
\* The fields of a response body that carry a budget, its balances' transfers
\* and its totals.
BodyOf(r) ==
    <<r.totalBudget, r.participants, r.expenses, r.totalSpent, r.remaining,
      r.debts, r.rows, r.error>>

\* C12 (not set up): a GET of the owner for a trip that exists and has no
\* budget is answered 200 with notSetup: true and with no budget, debts or
\* totals in the body; no balance is computed for it and no table changes.
\* Conversely notSetup: true is only ever sent for such a request.
C12_NotSetup ==
    /\ [][(/\ response' # response
           /\ response'.op = "get"
           /\ response'.tripId \in Trips
           /\ ~NotOwner(response'.userId, response'.tripId)
           /\ BudgetsOf(response'.tripId) = {})
              => /\ response'.status = 200
                 /\ response'.notSetup
                 /\ BodyOf(response') = BodyOf(NoResponse)
                 /\ active = 0 /\ active' = 0
                 /\ UNCHANGED <<db, locals>>]_vars
    /\ [](response.notSetup
              => /\ response.op = "get"
                 /\ response.status = 200
                 /\ response.tripId \in Trips
                 /\ ~NotOwner(response.userId, response.tripId))

\* The owner has been told that the trip has no budget, while a setup for
\* the trip is past its ownership check and has not committed.
C12_Witness ==
    /\ response.op = "get"
    /\ response.notSetup
    /\ response.status = 200
    /\ response.userId = TripOwner[response.tripId]
    /\ BudgetsOf(response.tripId) = {}
    /\ \E c \in Clients : pend[c].op = "setup" /\ pend[c].tripId = response.tripId

\* ------------------------------------------------------------------- C13
\* C13 (one budget per trip): in every reachable state, whatever the
\* interleaving of the setup requests, a trip has at most one budget row and
\* every participant row belongs to a stored budget; a setup that commits
\* when the trip already has a budget is answered 500 and leaves tripBudget
\* and tripParticipant as they were; and every setup answered with an error
\* leaves both tables as they were.
C13_OneBudget ==
    /\ [](/\ \A t \in Trips \cup TripIds : Cardinality(BudgetsOf(t)) <= 1
          /\ \A p \in tripParticipant : \E b \in tripBudget : b.id = p.budgetId)
    /\ [][/\ \A c \in Clients :
               (/\ pend[c].op = "setup"
                /\ pend'[c] # pend[c]
                /\ BudgetsOf(pend[c].tripId) # {})
                  => /\ response'.op = "setup"
                     /\ response'.status = 500
                     /\ UNCHANGED <<tripBudget, tripParticipant>>
          /\ (/\ response' # response
              /\ response'.op = "setup"
              /\ response'.status # 200)
                  => UNCHANGED <<tripBudget, tripParticipant>>]_vars

\* A setup was refused with 500 for a trip that has its budget, its
\* participants and an expense, while another setup for the trip is past the
\* ownership check.
C13_Witness ==
    /\ response.op = "setup"
    /\ response.status = 500
    /\ BudgetsOf(response.tripId) # {}
    /\ Cardinality(tripParticipant) = 2
    /\ expense # {}
    /\ \E c \in Clients : pend[c].op = "setup" /\ pend[c].tripId = response.tripId

\* ------------------------------------------------------------------- C14
\* The names of the stored participants of a trip's budget.
StoredNames(tripId) == {p.name : p \in ParticipantsOf(BudgetIdOf(tripId))}

\* C14 (participants of a new budget): a setup answered 200 has stored, for
\* the names it was given, exactly the names {"Me"} united with them: "Me" is
\* there whether it was given or not, and each name has one participant row
\* (participants are never added or removed afterwards, so this holds of the
\* stored rows as long as the response stands).
C14_ParticipantNames ==
    (response.op = "setup" /\ response.status = 200)
        => /\ StoredNames(response.tripId) = {"Me"} \cup Range(response.items)
           /\ "Me" \in StoredNames(response.tripId)
           /\ \A p, q \in ParticipantsOf(BudgetIdOf(response.tripId)) :
                  p.name = q.name => p = q
           /\ Cardinality(ParticipantsOf(BudgetIdOf(response.tripId)))
                  = Cardinality({"Me"} \cup Range(response.items))

\* A setup that was given the name "Me" itself has succeeded.
C14_Witness ==
    /\ response.op = "setup"
    /\ response.status = 200
    /\ response.items = <<"Me">>
    /\ StoredNames(response.tripId) = {"Me"}

\* ------------------------------------------------------------------- C15
\* C15 (stored expenses are valid): every stored expense has an amount
\* greater than 0 and a splitWithIds that is not empty.
C15_ValidExpenses ==
    \A e \in expense : e.amount > 0 /\ Len(e.splitWithIds) > 0

\* ------------------------------------------------------------------- C16
\* A client reads the budget of trip "t1", records expenses, removes
\* expenses and reads again.  The stored budget at the start is one that a
\* setup and the expense route can have stored.
RemoveInit ==
    /\ \E b \in SetupBudgets :
         tripBudget = {[id |-> BudgetIdOf("t1"), tripId |-> "t1", totalBudget |-> b]}
    /\ \E names \in SUBSET Names :
         /\ "Me" \in names
         /\ tripParticipant = ParticipantRows(BudgetIdOf("t1"), names)
    /\ \E n \in 0..(MaxExpenses - 1) :
         /\ clock = n
         /\ \E bodies \in [1..n -> [amount : ExpenseAmounts,
                                    paidById : KnownIds,
                                    splitWithIds : ExpenseSplits(KnownIds)]] :
              expense = ExpenseRows(BudgetIdOf("t1"), bodies)
    /\ pend = [c \in Clients |-> Idle]
    /\ active = 0
    /\ loaded = NoLoaded
    /\ balances = <<>>
    /\ debtors = <<>>
    /\ creditors = <<>>
    /\ i = 1
    /\ j = 1
    /\ debts = <<>>
    /\ response = NoResponse
    /\ shown = NoShown
    /\ NoCollab

RemoveNext ==
    \/ GetBudgetStart(1, TripOwner["t1"], "t1")
    \/ GetBudgetLoad(1)
    \/ SettleStep
    \/ GetBudgetShow
    \/ ExpenseStart(1, TripOwner["t1"], "t1")
    \/ \E a \in ExpenseAmounts, p \in KnownIds, sp \in ExpenseSplits(KnownIds) :
          ExpenseCommit(1, a, p, sp)
    \/ \E e \in 1..MaxExpenses : DeleteExpense(1, TripOwner["t1"], "t1", e)

RemoveSpec == RemoveInit /\ [][RemoveNext]_vars

\* C16 (remove restores): a delete answered 200 removes the expense row with
\* the id it names and no other row; and when a budget is read after an
\* expense was recorded and removed again (the expenses it returns are those
\* of the budget last shown, and an expense was recorded since), its debts,
\* totalSpent and remaining are those last shown.
C16_RemoveRestores ==
    [][/\ (response' # response /\ response'.op = "delete" /\ response'.status = 200)
              => /\ \E e \in expense :
                      e.id = response'.expenseId /\ expense' = expense \ {e}
                 /\ UNCHANGED <<tripBudget, tripParticipant>>
       /\ (/\ active # 0 /\ active' = 0
           /\ shown.view.op = "get"
           /\ clock > shown.clock
           /\ response'.expenses = shown.view.expenses)
              => /\ response'.debts = shown.view.debts
                 /\ response'.totalSpent = shown.view.totalSpent
                 /\ response'.remaining = shown.view.remaining]_vars

\* ------------------------------------------------------------------- C17
\* A step of a GET handler: a GET gets past the ownership check, a pending
\* GET moves, the synchronous part of a GET runs, or a GET is answered.
GetStep ==
    \/ \E c \in Clients : pend[c].op # "get" /\ pend'[c].op = "get"
    \/ \E c \in Clients : pend[c].op = "get" /\ (pend'[c] # pend[c] \/ active' = c)
    \/ active # 0
    \/ response' # response /\ response'.op = "get"

\* C17 (pure read): no step of a GET handler changes a stored budget,
\* participant or expense (nor the id counter), and once a GET has answered
\* nothing it computed is kept: outside the synchronous part of a GET the
\* balances, the debtor and creditor lists and the debts are empty.  What a
\* later request reads is therefore what the last write left.
C17_PureRead ==
    /\ [][GetStep => UNCHANGED <<tripBudget, tripParticipant, expense, clock>>]_vars
    /\ [](active = 0
             => /\ loaded = NoLoaded
                /\ balances = <<>>
                /\ debtors = <<>>
                /\ creditors = <<>>
                /\ debts = <<>>)

\* A GET has answered with a transfer and with money spent over the budget,
\* and the expenses are stored.
C17_Witness ==
    /\ active = 0
    /\ response.op = "get"
    /\ response.status = 200
    /\ response.debts # <<>>
    /\ response.remaining < 0
    /\ Cardinality(expense) = MaxExpenses

\* ------------------------------------------------------------------- C18
HasSplit(e) == Len(e.splitWithIds) > 0
\* The amounts of the loaded expenses that id paid.
PaidTotal(id) ==
    SumAmounts(SelectSeq(loaded.expenses, LAMBDA e : e.paidById = id))
NoSplitAtAll == \A k \in DOMAIN loaded.expenses : ~HasSplit(loaded.expenses[k])

\* C18 as claimed (payer still credited): when no loaded expense has a
\* member in its splitWith, nobody is debited and every participant's
\* balance is the sum of the amounts of the expenses that participant paid.
C18_PayerStillCredited ==
    (Computed /\ NoSplitAtAll)
        => \A k \in DOMAIN balances : balances[k].amount = PaidTotal(balances[k].id)

\* C18 (empty split), amended: an expense whose splitWith is empty is skipped
\* whole, credit and debit: the balances are those computed from the loaded
\* expenses that have a member in their splitWith, and when no loaded
\* expense has one every balance is 0.
C18_EmptySplitSkipped ==
    Computed
        => /\ balances = ComputeBalances(loaded.participants,
                                         SelectSeq(loaded.expenses, HasSplit))
           /\ NoSplitAtAll => \A k \in DOMAIN balances : balances[k].amount = 0

\* Balances computed from an expense with an empty splitWith and one that
\* is split: the payer of the first is owed nothing and owes a share.
C18_Witness ==
    /\ Computed
    /\ Len(loaded.expenses) = 2
    /\ ~HasSplit(loaded.expenses[1])
    /\ HasSplit(loaded.expenses[2])
    /\ loaded.expenses[1].paidById # loaded.expenses[2].paidById
    /\ \E k \in DOMAIN balances :
         /\ balances[k].id = loaded.expenses[1].paidById
         /\ balances[k].amount < 0

\* ------------------------------------------------------------------- C19
\* The owner reads the budget of trip "t1" while trip "t2" has a budget of
\* its own: the paidById of an expense of "t1" is the id of any stored
\* participant (Expense_paidById_fkey looks at no budgetId), its splitWithIds
\* are any ids.
AggAmounts == {Cents(4000), Cents(9000)}

AggInit ==
    /\ \E b \in SetupBudgets :
         tripBudget = {[id |-> BudgetIdOf(t), tripId |-> t, totalBudget |-> b] :
                          t \in {"t1", "t2"}}
    /\ \E names \in SUBSET Names :
         /\ "Me" \in names
         /\ tripParticipant = ParticipantRows(BudgetIdOf("t1"), names)
                                  \cup ParticipantRows(BudgetIdOf("t2"), {"Me"})
    /\ \E n \in 0..MaxExpenses :
         /\ clock = n
         /\ \E bodies \in [1..n -> [amount : AggAmounts,
                                    paidById : KnownIds,
                                    splitWithIds : SplitChoices(
                                        {p.id : p \in ParticipantsOf(BudgetIdOf("t1"))})]] :
              expense = ExpenseRows(BudgetIdOf("t1"), bodies)
    /\ pend = [c \in Clients |-> Idle]
    /\ active = 0
    /\ loaded = NoLoaded
    /\ balances = <<>>
    /\ debtors = <<>>
    /\ creditors = <<>>
    /\ i = 1
    /\ j = 1
    /\ debts = <<>>
    /\ response = NoResponse
    /\ shown = NoShown
    /\ NoCollab

AggSpec == AggInit /\ [][SettleNext]_vars

\* How many members of the array s are id.
Count(id, s) == Cardinality({k \in DOMAIN s : s[k] = id})

RECURSIVE Credited(_, _)
\* The amounts of the expenses of elist with a split set that id paid.
Credited(id, elist) ==
    IF elist = <<>> THEN 0
    ELSE (IF HasSplit(Head(elist)) /\ Head(elist).paidById = id
          THEN Head(elist).amount ELSE 0) + Credited(id, Tail(elist))

RECURSIVE Debited(_, _)
\* The shares amount / |splitWith| of the expenses of elist that list id.
Debited(id, elist) ==
    IF elist = <<>> THEN 0
    ELSE (IF HasSplit(Head(elist))
          THEN (Head(elist).amount \div Len(Head(elist).splitWithIds))
                   * Count(id, Head(elist).splitWithIds)
          ELSE 0) + Debited(id, Tail(elist))

\* An expense with a split set whose payer is no participant of the budget.
UnknownPayer(e) == HasSplit(e) /\ e.paidById \notin LoadedIds

\* C19 (unknown ids): the balances have one entry per participant of the
\* budget and no other; each entry is the amounts that participant paid minus
\* that participant's shares amount / |splitWith|, over the expenses with a
\* split set, whoever else paid or is listed: an unknown payer is credited
\* nowhere, an unknown member is debited nowhere, a known member is debited
\* its share; and the GET is answered 200.
C19_UnknownIds ==
    /\ Computed
          => /\ Len(balances) = Cardinality(ParticipantsOf(BudgetIdOf(pend[active].tripId)))
             /\ {balances[k].id : k \in DOMAIN balances}
                    = {p.id : p \in ParticipantsOf(BudgetIdOf(pend[active].tripId))}
             /\ \A k \in DOMAIN balances :
                    balances[k].amount = Credited(balances[k].id, loaded.expenses)
                                           - Debited(balances[k].id, loaded.expenses)
             /\ (\A m \in DOMAIN loaded.expenses : UnknownPayer(loaded.expenses[m]))
                    => \A k \in DOMAIN balances : balances[k].amount <= 0
    /\ response.op = "get" => response.status = 200

\* Balances computed from one expense, paid by a participant of another
\* budget and split between two participants and an id that is no
\* participant: each of the two is debited a third and nobody is credited.
C19_Witness ==
    /\ Computed
    /\ \E m \in DOMAIN loaded.expenses :
         /\ UnknownPayer(loaded.expenses[m])
         /\ GhostId \in Range(loaded.expenses[m].splitWithIds)
         /\ Len(loaded.expenses[m].splitWithIds) = 3
    /\ Len(loaded.expenses) = 1
    /\ \E k \in DOMAIN balances : balances[k].amount = -Cents(3000)
    /\ \A k \in DOMAIN balances : balances[k].amount <= 0

\* ------------------------------------------------------------------- C20
\* The amounts of the code are doubles (Expense.amount is DOUBLE PRECISION,
\* the balances are JavaScript numbers).  Where the last bit of a sum
\* matters they are modelled as they are: a double of the range of the
\* model is a whole multiple of 2^-(FracLimbs * LimbBits) with at most
\* Precision significant bits, kept as a sign and a magnitude, the magnitude
\* in units of 2^-(FracLimbs * LimbBits) as an array of limbs of LimbBits
\* bits, least significant first, without high zeros.  Every operation
\* computes the exact result and rounds it to nearest, ties to even, as
\* IEEE 754 does.
Precision == 53
LimbBits == 20
FracLimbs == 3
Base == 2^LimbBits

Limb(a, m) == IF m \in DOMAIN a THEN a[m] ELSE 0
Rest(a) == IF a = <<>> THEN <<>> ELSE Tail(a)

RECURSIVE Trim(_)
Trim(a) ==
    IF a = <<>> THEN <<>>
    ELSE IF a[Len(a)] = 0 THEN Trim(SubSeq(a, 1, Len(a) - 1)) ELSE a

RECURSIVE AddLimbs(_, _, _)
AddLimbs(a, b, carry) ==
    IF a = <<>> /\ b = <<>> THEN (IF carry = 0 THEN <<>> ELSE <<carry>>)
    ELSE LET t == Limb(a, 1) + Limb(b, 1) + carry
         IN  <<t % Base>> \o AddLimbs(Rest(a), Rest(b), t \div Base)

RECURSIVE SubLimbs(_, _, _)
\* a - b - borrow for a >= b + borrow, high zeros kept.
SubLimbs(a, b, borrow) ==
    IF a = <<>> THEN <<>>
    ELSE LET t == Limb(a, 1) - Limb(b, 1) - borrow
         IN  <<(t + Base) % Base>> \o SubLimbs(Tail(a), Rest(b), IF t < 0 THEN 1 ELSE 0)

RECURSIVE LessLimbs(_, _)
LessLimbs(a, b) ==
    IF Len(a) # Len(b) THEN Len(a) < Len(b)
    ELSE IF a = <<>> THEN FALSE
    ELSE IF a[Len(a)] # b[Len(b)] THEN a[Len(a)] < b[Len(b)]
    ELSE LessLimbs(SubSeq(a, 1, Len(a) - 1), SubSeq(b, 1, Len(b) - 1))

RECURSIVE DivFrom(_, _, _, _, _)
\* Long division from limb k of a down, with the remainder r and the
\* quotient q of the limbs above.
DivFrom(a, k, r, q, n) ==
    IF k = 0 THEN [q |-> q, r |-> r]
    ELSE DivFrom(a, k - 1, (r * Base + a[k]) % n, <<(r * Base + a[k]) \div n>> \o q, n)

\* Quotient (high zeros kept) and remainder of a by the small number n.
DivLimbs(a, n) == DivFrom(a, Len(a), 0, <<>>, n)

\* The number of significant bits of a.
BitLength(a) ==
    IF a = <<>> THEN 0
    ELSE LimbBits * (Len(a) - 1)
           + (CHOOSE k \in 1..LimbBits : 2^(k - 1) <= a[Len(a)] /\ a[Len(a)] < 2^k)

\* Bit p of a, the least significant being bit 1.
BitAt(a, p) == (Limb(a, (p - 1) \div LimbBits + 1) \div 2^((p - 1) % LimbBits)) % 2

\* a with its d low bits cleared.
ClearLow(a, d) ==
    [m \in DOMAIN a |->
        LET lo == LimbBits * (m - 1)
        IN  IF lo + LimbBits <= d THEN 0
            ELSE IF lo >= d THEN a[m]
            ELSE (a[m] \div 2^(d - lo)) * 2^(d - lo)]

\* 2^d
PowerOfTwo(d) ==
    [m \in 1..(d \div LimbBits + 1) |->
        IF m = d \div LimbBits + 1 THEN 2^(d % LimbBits) ELSE 0]

\* a, followed below its last bit by something not zero when sticky, rounded
\* to Precision significant bits, to nearest, ties to even.
RoundLimbs(a, sticky) ==
    LET d == BitLength(a) - Precision
    IN  IF d <= 0 THEN a
        ELSE LET low == sticky \/ \E p \in 1..(d - 1) : BitAt(a, p) = 1
                 up == BitAt(a, d) = 1 /\ (low \/ BitAt(a, d + 1) = 1)
             IN  IF up THEN AddLimbs(ClearLow(a, d), PowerOfTwo(d), 0)
                 ELSE ClearLow(a, d)

DoubleZero == [neg |-> FALSE, mag |-> <<>>]
MakeDouble(neg, mag) == IF mag = <<>> THEN DoubleZero ELSE [neg |-> neg, mag |-> mag]

\* x + y
DoubleAdd(x, y) ==
    IF x.neg = y.neg
    THEN MakeDouble(x.neg, RoundLimbs(AddLimbs(x.mag, y.mag, 0), FALSE))
    ELSE IF LessLimbs(x.mag, y.mag)
    THEN MakeDouble(y.neg, RoundLimbs(Trim(SubLimbs(y.mag, x.mag, 0)), FALSE))
    ELSE MakeDouble(x.neg, RoundLimbs(Trim(SubLimbs(x.mag, y.mag, 0)), FALSE))

\* x - y
DoubleSub(x, y) == DoubleAdd(x, MakeDouble(~y.neg, y.mag))

\* x / n for a whole number n > 0
DoubleDiv(x, n) ==
    LET d == DivLimbs(x.mag, n)
    IN  MakeDouble(x.neg, RoundLimbs(Trim(d.q), d.r # 0))

\* The double of a decimal amount of c cents (c < Base): the double nearest
\* to c / 100.
DoubleOfCents(c) ==
    DoubleDiv(MakeDouble(FALSE, Trim([m \in 1..(FracLimbs + 1) |->
                                         IF m = FracLimbs + 1 THEN c ELSE 0])), 100)

\* A stored amount (a decimal number of cents) as the double it is.
AsDouble(amount) == DoubleOfCents(amount \div Cent)

\* The aggregation of lines 253-278 on doubles.
InitBalancesDouble(plist) ==
    [k \in DOMAIN plist |->
        [id |-> plist[k].id, name |-> plist[k].name, amount |-> DoubleZero]]

\* if (balances[id]) balances[id].amount += x
CreditIfKnown(bal, id, x) ==
    [k \in DOMAIN bal |->
        IF bal[k].id = id THEN [bal[k] EXCEPT !.amount = DoubleAdd(@, x)] ELSE bal[k]]

\* if (balances[id]) balances[id].amount -= x
DebitIfKnown(bal, id, x) ==
    [k \in DOMAIN bal |->
        IF bal[k].id = id THEN [bal[k] EXCEPT !.amount = DoubleSub(@, x)] ELSE bal[k]]

RECURSIVE DebitAllDouble(_, _, _)
DebitAllDouble(bal, ids, splitAmount) ==
    IF ids = <<>> THEN bal
    ELSE DebitAllDouble(DebitIfKnown(bal, Head(ids), splitAmount), Tail(ids), splitAmount)

ApplyExpenseDouble(bal, e) ==
    IF Len(e.splitWithIds) > 0
    THEN LET splitAmount == DoubleDiv(AsDouble(e.amount), Len(e.splitWithIds))
         IN  DebitAllDouble(CreditIfKnown(bal, e.paidById, AsDouble(e.amount)),
                            e.splitWithIds, splitAmount)
    ELSE bal

RECURSIVE AggregateDouble_StopsAtEmpty(_, _)
\* The loop left (break) at the first expense without a split set.
AggregateDouble_StopsAtEmpty(bal, elist) ==
    IF elist = <<>> THEN bal
    ELSE IF Len(Head(elist).splitWithIds) = 0 THEN bal
    ELSE AggregateDouble_StopsAtEmpty(ApplyExpenseDouble(bal, Head(elist)), Tail(elist))

RECURSIVE AggregateDouble(_, _)
AggregateDouble(bal, elist) ==
    IF elist = <<>> THEN bal
    ELSE AggregateDouble(ApplyExpenseDouble(bal, Head(elist)), Tail(elist))

ComputeBalancesDouble(plist, elist) == AggregateDouble(InitBalancesDouble(plist), elist)

\* Lines 229-278 of the GET handler with the balances as doubles: the budget
\* is loaded and the balances are computed.
GetBudgetLoadDouble(c) ==
    /\ Free
    /\ pend[c].op = "get"
    /\ \E budget \in BudgetsOf(pend[c].tripId) :
       \E plist \in Orders(ParticipantsOf(budget.id)) :
         LET elist == ByDateDesc(ExpensesOf(budget.id))
         IN  /\ loaded' = [totalBudget |-> budget.totalBudget,
                           participants |-> plist, expenses |-> elist]
             /\ balances' = ComputeBalancesDouble(plist, elist)
    /\ active' = c
    /\ UNCHANGED <<db, pend, debtors, creditors, i, j, debts, response, shown, collab>>

\* The owner reads the budget of trip "t1"; the expenses were recorded with
\* amounts of 0.10, 0.20 and 0.30 and with any participants as their split.
DoubleAmounts == {Cents(10), Cents(20), Cents(30)}

DoubleInit ==
    /\ \E b \in SetupBudgets :
         tripBudget = {[id |-> BudgetIdOf("t1"), tripId |-> "t1", totalBudget |-> b]}
    /\ \E names \in SUBSET Names :
         /\ "Me" \in names
         /\ tripParticipant = ParticipantRows(BudgetIdOf("t1"), names)
    /\ \E n \in 0..MaxExpenses :
         /\ clock = n
         /\ \E bodies \in [1..n -> [amount : DoubleAmounts,
                                    paidById : KnownIds,
                                    splitWithIds : {SeqOfIds(T) : T \in SUBSET KnownIds}]] :
              expense = ExpenseRows(BudgetIdOf("t1"), bodies)
    /\ pend = [c \in Clients |-> Idle]
    /\ active = 0
    /\ loaded = NoLoaded
    /\ balances = <<>>
    /\ debtors = <<>>
    /\ creditors = <<>>
    /\ i = 1
    /\ j = 1
    /\ debts = <<>>
    /\ response = NoResponse
    /\ shown = NoShown
    /\ NoCollab

DoubleNext ==
    \/ GetBudgetStart(1, TripOwner["t1"], "t1")
    \/ GetBudgetLoadDouble(1)

DoubleSpec == DoubleInit /\ [][DoubleNext]_vars

\* C20 as claimed (order independence): the balances computed from the
\* loaded expenses are the balances computed from every permutation of them,
\* for the same participants.
C20_OrderIndependent ==
    Computed
        => \A elist \in Orders(Range(loaded.expenses)) :
               ComputeBalancesDouble(loaded.participants, elist) = balances

\* |x - y|, exact, in units of 2^-(FracLimbs * LimbBits).
Distance(x, y) ==
    IF x.neg # y.neg THEN AddLimbs(x.mag, y.mag, 0)
    ELSE IF LessLimbs(x.mag, y.mag) THEN Trim(SubLimbs(y.mag, x.mag, 0))
    ELSE Trim(SubLimbs(x.mag, y.mag, 0))

\* 2^-30, which is below 1e-9.
Tolerance == PowerOfTwo(FracLimbs * LimbBits - 30)

\* C20 (order independence), amended: the balances computed from two
\* permutations of the loaded expenses are equal up to the rounding of the
\* additions: every participant's two balances are within 2^-30 (< 1e-9) of
\* each other.
C20_OrderWithinRounding ==
    Computed
        => \A elist \in Orders(Range(loaded.expenses)) :
             LET other == ComputeBalancesDouble(loaded.participants, elist)
             IN  /\ DOMAIN other = DOMAIN balances
                 /\ \A k \in DOMAIN balances :
                      /\ other[k].id = balances[k].id
                      /\ ~LessLimbs(Tolerance, Distance(other[k].amount, balances[k].amount))

\* Balances computed from two expenses that come out with another last bit
\* when the expenses are taken in the other order.
C20_Witness ==
    /\ Computed
    /\ Len(loaded.expenses) = 2
    /\ \E elist \in Orders(Range(loaded.expenses)) :
         ComputeBalancesDouble(loaded.participants, elist) # balances


(***************************************************************************)
(* C21.  When every paidBy and splitWith member is a known participant,    *)
(* the matching loop ends with both the debtor list and the creditor list  *)
(* exhausted: both pointers have run past the end of their lists, so no    *)
(* debtor or creditor is left unprocessed.                                 *)
(***************************************************************************)
C21_BothExhausted ==
    (Settled /\ AllKnown) => (i > Len(debtors) /\ j > Len(creditors))


\* ------------------------------------- doubles at the top of their range
\* The largest finite double is 1.7976931348623157e308; a sum beyond it is
\* Infinity, Infinity - Infinity is NaN, and every comparison with NaN is
\* false.  Here an amount is an integer number of units of 1e307 / Scale, or
\* one of Infinity, -Infinity and NaN.  The rounding of the doubles (about
\* 1e-16 relative) is far below one unit and 0.01 is far below one unit too:
\* for a whole number x of units, x < -0.01 is x < 0, x > 0.01 is x > 0 and
\* Math.abs(x) < 0.01 is x = 0.
MaxFinite == (17976 * Scale) \div 1000
Infinity == MaxFinite + 1
NaN == MaxFinite + 2

\* The double nearest to a real number of units.
HugeRound(x) ==
    IF x > MaxFinite THEN Infinity ELSE IF x < -MaxFinite THEN -Infinity ELSE x

\* a + b
HugeAdd(a, b) ==
    IF a = NaN \/ b = NaN THEN NaN
    ELSE IF Abs(a) = Infinity
    THEN (IF b = -a THEN NaN ELSE a)
    ELSE IF Abs(b) = Infinity THEN b
    ELSE HugeRound(a + b)

\* a - b
HugeSub(a, b) == IF b = NaN THEN NaN ELSE HugeAdd(a, -b)

\* a < b
HugeLess(a, b) == a # NaN /\ b # NaN /\ a < b

\* Math.abs(a)
HugeAbs(a) == IF a = NaN THEN NaN ELSE Abs(a)

\* Math.min(a, b)
HugeMin(a, b) == IF a = NaN \/ b = NaN THEN NaN ELSE Min(a, b)

RECURSIVE HugeDebitAll(_, _, _)
\* Lines 272-276.
HugeDebitAll(bal, ids, splitAmount) ==
    IF ids = <<>> THEN bal
    ELSE HugeDebitAll([k \in DOMAIN bal |->
                          IF bal[k].id = Head(ids)
                          THEN [bal[k] EXCEPT !.amount = HugeSub(@, splitAmount)]
                          ELSE bal[k]],
                      Tail(ids), splitAmount)

\* Lines 259-277: a stored amount is finite, and so is its share.
HugeApplyExpense(bal, e) ==
    IF Len(e.splitWithIds) > 0
    THEN LET splitAmount == e.amount \div Len(e.splitWithIds)
             credited == [k \in DOMAIN bal |->
                             IF bal[k].id = e.paidById
                             THEN [bal[k] EXCEPT !.amount = HugeAdd(@, e.amount)]
                             ELSE bal[k]]
         IN  HugeDebitAll(credited, e.splitWithIds, splitAmount)
    ELSE bal

RECURSIVE HugeAggregate(_, _)
\* Lines 258-278.
HugeAggregate(bal, elist) ==
    IF elist = <<>> THEN bal
    ELSE HugeAggregate(HugeApplyExpense(bal, Head(elist)), Tail(elist))

\* The value of the comparator of the sort is negative: a goes before b.
\* (A comparator value of NaN counts as 0.)
HugeBefore(desc, a, b) ==
    IF desc THEN HugeLess(HugeSub(b.amount, a.amount), 0)
    ELSE HugeLess(HugeSub(a.amount, b.amount), 0)

RECURSIVE HugeInsert(_, _, _)
HugeInsert(s, x, desc) ==
    IF s = <<>> THEN <<x>>
    ELSE IF HugeBefore(desc, x, Head(s)) THEN <<x>> \o s
    ELSE <<Head(s)>> \o HugeInsert(Tail(s), x, desc)

RECURSIVE HugeSort(_, _)
\* Lines 291-292.
HugeSort(s, desc) ==
    IF s = <<>> THEN <<>>
    ELSE HugeInsert(HugeSort(SubSeq(s, 1, Len(s) - 1), desc), s[Len(s)], desc)

\* Lines 229-292 of the GET handler for a budget that exists.
GetBudgetLoadHuge(c) ==
    /\ Free
    /\ pend[c].op = "get"
    /\ \E budget \in BudgetsOf(pend[c].tripId) :
       \E plist \in Orders(ParticipantsOf(budget.id)) :
         LET elist == ByDateDesc(ExpensesOf(budget.id))
             bal == HugeAggregate(InitBalances(plist), elist)
         IN  /\ loaded' = [totalBudget |-> budget.totalBudget,
                           participants |-> plist, expenses |-> elist]
             /\ balances' = bal
             /\ debtors' = HugeSort(SelectSeq(bal, LAMBDA b : HugeLess(b.amount, 0)), FALSE)
             /\ creditors' = HugeSort(SelectSeq(bal, LAMBDA b : HugeLess(0, b.amount)), TRUE)
    /\ i' = 1
    /\ j' = 1
    /\ debts' = <<>>
    /\ active' = c
    /\ UNCHANGED <<db, pend, response, shown, collab>>

\* Lines 297-316: one iteration of the matching loop.  toFixed(2) of a number
\* of 1e21 or more is the number itself, and so is it of Infinity.
SettleStepHuge ==
    /\ active # 0
    /\ LoopCondition
    /\ LET debtor == debtors[i]
           creditor == creditors[j]
           amount == HugeMin(HugeAbs(debtor.amount), creditor.amount)
           debtorAfter == HugeAdd(debtor.amount, amount)
           creditorAfter == HugeSub(creditor.amount, amount)
       IN  /\ debts' = IF HugeLess(0, amount)
                       THEN Append(debts, [from |-> debtor.name, to |-> creditor.name,
                                           amount |-> amount])
                       ELSE debts
           /\ debtors' = [debtors EXCEPT ![i].amount = debtorAfter]
           /\ creditors' = [creditors EXCEPT ![j].amount = creditorAfter]
           /\ i' = IF HugeAbs(debtorAfter) = 0 THEN i + 1 ELSE i
           /\ j' = IF HugeLess(creditorAfter, 1) THEN j + 1 ELSE j
    /\ UNCHANGED <<db, pend, active, loaded, balances, response, shown, collab>>

RECURSIVE HugeTotalSpent(_)
\* Line 319.
HugeTotalSpent(elist) ==
    IF elist = <<>> THEN 0
    ELSE HugeAdd(HugeTotalSpent(SubSeq(elist, 1, Len(elist) - 1)), elist[Len(elist)].amount)

\* Lines 318-326.
GetBudgetReplyHuge ==
    /\ active # 0
    /\ ~LoopCondition
    /\ LET totalSpent == HugeTotalSpent(loaded.expenses)
       IN  response' = [Reply(active, "get", pend[active].userId, pend[active].tripId, 200, "")
                           EXCEPT !.totalBudget = loaded.totalBudget,
                                  !.participants = Range(loaded.participants),
                                  !.expenses = loaded.expenses,
                                  !.totalSpent = totalSpent,
                                  !.remaining = HugeSub(loaded.totalBudget, totalSpent),
                                  !.debts = debts]
    /\ pend' = [pend EXCEPT ![active] = Idle]
    /\ active' = 0
    /\ LocalsReset
    /\ UNCHANGED <<db, shown, collab>>

\* The owner reads the budget of trip "t1"; the expenses were recorded with
\* amounts of 1e308 and 5e307, the budget with a total of 0.
HugeAmounts == {10 * Scale, 5 * Scale}

HugeInit ==
    /\ tripBudget = {[id |-> BudgetIdOf("t1"), tripId |-> "t1", totalBudget |-> 0]}
    /\ \E names \in SUBSET Names :
         /\ "Me" \in names
         /\ tripParticipant = ParticipantRows(BudgetIdOf("t1"), names)
    /\ \E n \in 0..MaxExpenses :
         /\ clock = n
         /\ \E bodies \in [1..n -> [amount : HugeAmounts,
                                    paidById : KnownIds,
                                    splitWithIds : SplitChoices(KnownIds)]] :
              expense = ExpenseRows(BudgetIdOf("t1"), bodies)
    /\ pend = [c \in Clients |-> Idle]
    /\ active = 0
    /\ loaded = NoLoaded
    /\ balances = <<>>
    /\ debtors = <<>>
    /\ creditors = <<>>
    /\ i = 1
    /\ j = 1
    /\ debts = <<>>
    /\ response = NoResponse
    /\ shown = NoShown
    /\ NoCollab

HugeNext ==
    \/ GetBudgetStart(1, TripOwner["t1"], "t1")
    \/ GetBudgetLoadHuge(1)
    \/ SettleStepHuge
    \/ GetBudgetReplyHuge

HugeSpec == HugeInit /\ [][HugeNext]_vars

(***************************************************************************)
(* C22.  The matching loop terminates for every set of balances: every     *)
(* iteration of the loop advances the debtor pointer or the creditor       *)
(* pointer (or both), so the two pointers together bound the number of     *)
(* iterations by |debtors| + |creditors|.                                  *)
(***************************************************************************)
C22_PointerAdvances ==
    [][(active # 0 /\ LoopCondition) => (i' + j' > i + j)]_vars


\* Every transfer emitted so far goes from a debtor to a creditor of the
\* computed balances, the transfers are in the order of the two sorted lists,
\* and the first one pairs the two extremes.
GreedyOrder ==
    Computed =>
        /\ \A k \in DOMAIN debts :
               /\ BalanceOf(debts[k].from) < -Epsilon
               /\ BalanceOf(debts[k].to) > Epsilon
        /\ \A k, m \in DOMAIN debts :
               k < m => /\ BalanceOf(debts[k].from) <= BalanceOf(debts[m].from)
                        /\ BalanceOf(debts[k].to) >= BalanceOf(debts[m].to)
        /\ debts # <<>> =>
               \A n \in DOMAIN balances :
                   /\ BalanceOf(debts[1].from) <= balances[n].amount
                   /\ BalanceOf(debts[1].to) >= balances[n].amount

(***************************************************************************)
(* C23.  Greedy matching order: every emitted transfer goes from a         *)
(* participant whose computed balance is below -0.01 to one whose computed *)
(* balance is above 0.01; the transfers are emitted with the debtors taken *)
(* most negative first and the creditors most positive first, the first    *)
(* transfer pairing the most negative debtor with the most positive        *)
(* creditor; and the response carries the list in the order of emission.   *)
(***************************************************************************)
C23_GreedyOrder ==
    [][/\ GreedyOrder'
       /\ (active # 0 /\ active' = 0) => response'.debts = debts]_vars

\* The response carries two transfers, from one debtor to two creditors with
\* different balances.
C23_Witness ==
    /\ response.status = 200
    /\ Len(response.debts) = 2
    /\ response.debts[1].from = response.debts[2].from
    /\ response.debts[1].to # response.debts[2].to
    /\ response.debts[1].amount > response.debts[2].amount


\* ------------------------------------------ a budget of five participants
\* The owner reads the budget of trip "t1": five participants, and expenses
\* that "D" or "E" paid for two of "Me", "B" and "C".
FiveNames == Range(AllNames)
FivePayers == {ParticipantIdOf(BudgetIdOf("t1"), n) : n \in {"D", "E"}}
FiveSplits ==
    {SeqOfIds({ParticipantIdOf(BudgetIdOf("t1"), n) : n \in T}) :
        T \in {{"Me", "B"}, {"Me", "C"}, {"B", "C"}}}

FiveInit ==
    /\ \E b \in SetupBudgets :
         tripBudget = {[id |-> BudgetIdOf("t1"), tripId |-> "t1", totalBudget |-> b]}
    /\ tripParticipant = ParticipantRows(BudgetIdOf("t1"), FiveNames)
    /\ \E n \in 0..MaxExpenses :
         /\ clock = n
         /\ \E bodies \in [1..n -> [amount : ExpenseAmounts,
                                    paidById : FivePayers,
                                    splitWithIds : FiveSplits]] :
              expense = ExpenseRows(BudgetIdOf("t1"), bodies)
    /\ pend = [c \in Clients |-> Idle]
    /\ active = 0
    /\ loaded = NoLoaded
    /\ balances = <<>>
    /\ debtors = <<>>
    /\ creditors = <<>>
    /\ i = 1
    /\ j = 1
    /\ debts = <<>>
    /\ response = NoResponse
    /\ shown = NoShown
    /\ NoCollab

FiveSpec == FiveInit /\ [][SettleNext]_vars

\* The participants with a balance that is not zero, as indices of balances.
Unsettled == {k \in DOMAIN balances : balances[k].amount # 0}

RECURSIVE SumOver(_)
\* The sum of the balances of a set of participants.
SumOver(S) ==
    IF S = {} THEN 0
    ELSE LET k == CHOOSE x \in S : TRUE IN balances[k].amount + SumOver(S \ {k})

RECURSIVE MaxBlocks(_)
\* The largest number of groups into which the participants of R can be
\* divided so that the balances of each group sum to zero (R itself sums to
\* zero).
MaxBlocks(R) ==
    IF R = {} THEN 0
    ELSE LET first == CHOOSE x \in R : \A y \in R : x <= y
             groups == {S \in SUBSET R : first \in S /\ SumOver(S) = 0}
             counts == {1 + MaxBlocks(R \ S) : S \in groups}
         IN  CHOOSE n \in counts : \A m \in counts : n >= m

\* The least number of pairwise transfers that bring every balance to zero.
\* The transfers of a settlement connect the participants into groups; each
\* group sums to zero and needs at least one transfer less than it has
\* members, and that many are enough.
MinTransfers == Cardinality(Unsettled) - MaxBlocks(Unsettled)

(***************************************************************************)
(* C24, as claimed.  The emitted transfers are a minimal set: for zero-sum *)
(* balances no set of pairwise transfers with fewer transfers settles all  *)
(* balances.                                                               *)
(***************************************************************************)
C24_Minimal ==
    (Settled /\ SumAmounts(balances) = 0) => Len(debts) <= MinTransfers

(***************************************************************************)
(* C24, amended.  The loop emits at most one transfer less than there are  *)
(* debtors and creditors together, and none when there is no debtor or no  *)
(* creditor.                                                               *)
(***************************************************************************)
C24_AtMostOneLess ==
    Computed =>
        IF debtors = <<>> \/ creditors = <<>>
        THEN debts = <<>>
        ELSE Len(debts) <= Len(debtors) + Len(creditors) - 1

\* Four transfers between three debtors and two creditors where three
\* transfers settle every balance.
C24_Witness ==
    /\ Settled
    /\ Len(debtors) = 3
    /\ Len(creditors) = 2
    /\ Len(debts) = 4
    /\ MinTransfers = 3


\* What is left of each debtor's balance lies between the computed balance
\* and zero, and so does what is left of each creditor's.
NoOverpayment ==
    Computed =>
        /\ \A k \in DOMAIN debtors :
               /\ BalanceOf(debtors[k].name) <= debtors[k].amount
               /\ debtors[k].amount <= 0
        /\ \A k \in DOMAIN creditors :
               /\ 0 <= creditors[k].amount
               /\ creditors[k].amount <= BalanceOf(creditors[k].name)

(***************************************************************************)
(* C25.  No overpayment: an iteration of the loop moves one amount, not    *)
(* negative, out of the debtor and into the creditor; what has been moved  *)
(* out of a debtor is what its balance has changed by and never exceeds    *)
(* the magnitude of its computed balance, and likewise for a creditor: a   *)
(* debtor's remaining balance is never positive, a creditor's never        *)
(* negative.                                                               *)
(***************************************************************************)
C25_NoOverpayment ==
    [][/\ NoOverpayment'
       /\ (active # 0 /\ LoopCondition)
            => LET moved == debtors'[i].amount - debtors[i].amount
               IN  /\ moved >= 0
                   /\ creditors[j].amount - creditors'[j].amount = moved
                   /\ \A k \in DOMAIN debtors : k # i => debtors'[k] = debtors[k]
                   /\ \A k \in DOMAIN creditors : k # j => creditors'[k] = creditors[k]]_vars

\* A debtor has paid a part of its balance and still owes the rest.
C25_Witness ==
    /\ Computed
    /\ LoopCondition
    /\ debtors[i].amount < -Epsilon
    /\ BalanceOf(debtors[i].name) < debtors[i].amount
    /\ Len(debts) = 1


(***************************************************************************)
(* C26.  The expenses of a trip's budget change only through a request     *)
(* made by the owner of that trip and addressed to that trip: whenever the *)
(* stored expenses change, the request answered names a trip, its caller   *)
(* owns that trip, and every expense added or removed belongs to the       *)
(* budget of that trip.                                                    *)
(***************************************************************************)
C26_OwnerOnly ==
    [][expense' # expense =>
          /\ response'.op \in {"expense", "delete"}
          /\ response'.tripId \in Trips
          /\ response'.userId = TripOwner[response'.tripId]
          /\ \A e \in (expense' \ expense) \cup (expense \ expense') :
                 e.budgetId = BudgetIdOf(response'.tripId)]_vars


\* ================================================== collaboration routes
\*   POST  /invite/:token/accept    accept an invite
\*   POST  /invite/:token/decline   decline an invite
\*   POST  /:tripId/vote            vote on an activity
\*   PATCH /:tripId/itinerary       edit an activity of the itinerary
\* The requests of the model are addressed to trip "t1".  A handler is split
\* at its awaits; a query that only reads is one step with the tests that
\* follow it.
budgetVars == <<db, pend, active, locals, response, shown>>

\* The budget routes have stored nothing and handle nothing.
NoBudget ==
    /\ tripBudget = {}
    /\ tripParticipant = {}
    /\ expense = {}
    /\ clock = 0
    /\ pend = [c \in Clients |-> Idle]
    /\ active = 0
    /\ loaded = NoLoaded
    /\ balances = <<>>
    /\ debtors = <<>>
    /\ creditors = <<>>
    /\ i = 1
    /\ j = 1
    /\ debts = <<>>
    /\ response = NoResponse
    /\ shown = NoShown

Roles == {"editor", "viewer"}
\* req.params.token: the token of no invite, and the token of the invite.
Tokens == {"k0", "k1"}

\* The row tripCollaborator.create stores for an invite of trip "t1" (lines
\* 111-117): status 'pending' and no userId by default.
InviteRow(role) ==
    [id |-> "c1", tripId |-> "t1", userId |-> "", email |-> "u2@example.com",
     role |-> role, inviteToken |-> "k1", status |-> "pending"]

\* No request of user u is in flight.
Ready(u) == call[u].stage \in {"idle", "done"}

\* The answer to a request of kind op.
Answer(op, status, message) ==
    [NoCall EXCEPT !.op = op, !.stage = "done", !.status = status, !.message = message]

\* Lines 42-65.
CanAccessTrip(userId, tripId) ==
    IF tripId \notin Trips THEN [access |-> FALSE, role |-> ""]
    ELSE IF TripOwner[tripId] = userId THEN [access |-> TRUE, role |-> "owner"]
    ELSE LET accepted == {c \in tripCollaborator :
                             c.tripId = tripId /\ c.userId = userId /\ c.status = "accepted"}
         IN  IF accepted # {}
             THEN [access |-> TRUE, role |-> (CHOOSE c \in accepted : TRUE).role]
             ELSE [access |-> FALSE, role |-> ""]

\* ------------------------------------------ POST /invite/:token/accept
\* Lines 245-255: findUnique by token, 404, 400 unless pending.
AcceptStart(u, token) ==
    /\ Ready(u)
    /\ LET found == {c \in tripCollaborator : c.inviteToken = token}
       IN  IF found = {}
           THEN call' = [call EXCEPT ![u] = Answer("accept", 404, "Invite not found")]
           ELSE \E collaborator \in found :
                  IF collaborator.status # "pending"
                  THEN call' = [call EXCEPT ![u] =
                                   Answer("accept", 400, "Invite already processed")]
                  ELSE call' = [call EXCEPT ![u] =
                                   [NoCall EXCEPT !.op = "accept", !.stage = "update",
                                                  !.id = collaborator.id]]
    /\ UNCHANGED <<budgetVars, tripCollaborator, activityVote, itinerary>>

\* Lines 257-280: user.findUnique (the email is only logged), then
\* tripCollaborator.update by id; a missing row throws and the catch
\* answers 500.
AcceptCommit(u) ==
    /\ call[u].op = "accept"
    /\ call[u].stage = "update"
    /\ IF \E c \in tripCollaborator : c.id = call[u].id
       THEN /\ tripCollaborator' =
                   {IF c.id = call[u].id
                       THEN [c EXCEPT !.status = "accepted", !.userId = u]
                       ELSE c : c \in tripCollaborator}
            /\ call' = [call EXCEPT ![u] = Answer("accept", 200, "Invite accepted")]
       ELSE /\ call' = [call EXCEPT ![u] = Answer("accept", 500, "Failed to accept invite")]
            /\ UNCHANGED tripCollaborator
    /\ UNCHANGED <<budgetVars, activityVote, itinerary>>

\* ----------------------------------------- POST /invite/:token/decline
\* Lines 286-292: findUnique by token, 404.  The status is not looked at.
DeclineStart(u, token) ==
    /\ Ready(u)
    /\ LET found == {c \in tripCollaborator : c.inviteToken = token}
       IN  IF found = {}
           THEN call' = [call EXCEPT ![u] = Answer("decline", 404, "Invite not found")]
           ELSE \E collaborator \in found :
                  call' = [call EXCEPT ![u] =
                              [NoCall EXCEPT !.op = "decline", !.stage = "update",
                                             !.id = collaborator.id]]
    /\ UNCHANGED <<budgetVars, tripCollaborator, activityVote, itinerary>>

\* Lines 294-303: tripCollaborator.update by id, status 'declined'.
DeclineCommit(u) ==
    /\ call[u].op = "decline"
    /\ call[u].stage = "update"
    /\ IF \E c \in tripCollaborator : c.id = call[u].id
       THEN /\ tripCollaborator' =
                   {IF c.id = call[u].id THEN [c EXCEPT !.status = "declined"] ELSE c :
                       c \in tripCollaborator}
            /\ call' = [call EXCEPT ![u] = Answer("decline", 200, "Invite declined")]
       ELSE /\ call' = [call EXCEPT ![u] = Answer("decline", 500, "Failed to decline invite")]
            /\ UNCHANGED tripCollaborator
    /\ UNCHANGED <<budgetVars, activityVote, itinerary>>

\* PlannedTrip.itinerary of trip "t1" as the trip was planned: one day with
\* two activities.
SeedItinerary ==
    <<[day |-> 1, activities |-> <<[title |-> "museum", note |-> ""],
                                   [title |-> "harbour", note |-> ""]>>]>>

\* The owner of trip "t1" has invited "u2@example.com" as editor or viewer.
InviteInit ==
    /\ NoBudget
    /\ \E role \in Roles : tripCollaborator = {InviteRow(role)}
    /\ activityVote = {}
    /\ itinerary = SeedItinerary
    /\ call = [u \in CollabUsers |-> NoCall]

InviteNext ==
    \/ \E u \in CollabUsers, token \in Tokens : AcceptStart(u, token)
    \/ \E u \in CollabUsers : AcceptCommit(u)
    \/ \E u \in CollabUsers, token \in Tokens : DeclineStart(u, token)
    \/ \E u \in CollabUsers : DeclineCommit(u)

InviteSpec == InviteInit /\ [][InviteNext]_vars

\* The users whose last request was an accept answered 200.
Accepted == {u \in CollabUsers : call[u].op = "accept" /\ call[u].status = 200}
TheInvite == CHOOSE c \in tripCollaborator : c.inviteToken = "k1"

(***************************************************************************)
(* C27.  A collaboration invite is accepted at most once: of the accept    *)
(* requests for one pending invite, in any interleaving, one is answered   *)
(* with success at most, the invite's userId is the user of that request,  *)
(* and every other accept request is answered 'Invite already processed'.  *)
(***************************************************************************)
C27_AcceptedOnce ==
    /\ Cardinality(Accepted) <= 1
    /\ \A u \in Accepted : TheInvite.userId = u
    /\ \A u \in CollabUsers :
           (call[u].op = "accept" /\ call[u].stage = "done" /\ call[u].status # 404)
               => \/ call[u].status = 200
                  \/ call[u].status = 400 /\ call[u].message = "Invite already processed"

(***************************************************************************)
(* C28.  Invite status is terminal once processed: the status of an invite *)
(* changes only from pending, to accepted or to declined; an invite that   *)
(* has been accepted stays accepted, and the user who accepted it keeps    *)
(* access to the trip.                                                     *)
(***************************************************************************)
C28_StatusTerminal ==
    [][/\ TheInvite'.status # TheInvite.status
          => /\ TheInvite.status = "pending"
             /\ TheInvite'.status \in {"accepted", "declined"}
       /\ TheInvite.status = "accepted"
          => /\ TheInvite'.status = "accepted"
             /\ CanAccessTrip(TheInvite.userId, "t1").access
                  => CanAccessTrip(TheInvite.userId, "t1")'.access]_vars


\* Every state the accept and decline routes can leave the invite in.
InviteStates ==
    {[InviteRow(role) EXCEPT !.status = "pending"] : role \in Roles}
        \cup {[InviteRow(role) EXCEPT !.status = "accepted", !.userId = u] :
                 role \in Roles, u \in CollabUsers}
        \cup {[InviteRow(role) EXCEPT !.status = "declined", !.userId = u] :
                 role \in Roles, u \in CollabUsers \cup {""}}

\* ---------------------------------------------- PATCH /:tripId/itinerary
\* { ...dayPlan.activities[activityIndex], ...updates }
Merge(activity, updates) ==
    [f \in DOMAIN activity \cup DOMAIN updates |->
        IF f \in DOMAIN updates THEN updates[f] ELSE activity[f]]

\* Lines 417-440: canAccessTrip reads the trip with its itinerary; 403, 403
\* for a viewer, 400; the update is applied to the handler's copy.  The
\* activity of index activityIndex (from 0) is member activityIndex + 1.
EditStart(u, day, activityIndex, updates) ==
    /\ Ready(u)
    /\ LET found == CanAccessTrip(u, "t1")
           days == {k \in DOMAIN itinerary : itinerary[k].day = day}
           dayPlan == CHOOSE k \in days : \A m \in days : k <= m
       IN  IF ~found.access
           THEN call' = [call EXCEPT ![u] = Answer("edit", 403, "Access denied")]
           ELSE IF found.role = "viewer"
           THEN call' = [call EXCEPT ![u] =
                            Answer("edit", 403, "Viewers cannot edit itinerary")]
           ELSE IF days = {} \/ activityIndex + 1 \notin DOMAIN itinerary[dayPlan].activities
           THEN call' = [call EXCEPT ![u] =
                            Answer("edit", 400, "Invalid day or activity index")]
           ELSE call' = [call EXCEPT ![u] =
                            [NoCall EXCEPT !.op = "edit", !.stage = "update", !.day = day,
                                           !.activityIndex = activityIndex,
                                           !.updates = updates,
                                           !.copy = [itinerary EXCEPT
                                               ![dayPlan].activities[activityIndex + 1] =
                                                   Merge(@, updates)]]]
    /\ UNCHANGED <<budgetVars, tripCollaborator, activityVote, itinerary>>

\* Lines 442-447: plannedTrip.update stores the handler's copy of the whole
\* itinerary.
EditCommit(u) ==
    /\ call[u].op = "edit"
    /\ call[u].stage = "update"
    /\ itinerary' = call[u].copy
    /\ call' = [call EXCEPT ![u] = [@ EXCEPT !.stage = "done", !.status = 200]]
    /\ UNCHANGED <<budgetVars, tripCollaborator, activityVote>>

\* req.body.activityIndex: the two activities of the day, and one past them.
EditIndexes == {0, 1, 2}

\* Each user sends one edit request at most, and sets the note of an
\* activity to a text of their own.
EditOnce(u, activityIndex) ==
    /\ call[u].stage = "idle"
    /\ EditStart(u, 1, activityIndex, [note |-> u])

EditInit ==
    /\ NoBudget
    /\ \E row \in InviteStates : tripCollaborator = {row}
    /\ activityVote = {}
    /\ itinerary = SeedItinerary
    /\ call = [u \in CollabUsers |-> NoCall]

EditNext ==
    \/ \E u \in CollabUsers, activityIndex \in EditIndexes : EditOnce(u, activityIndex)
    \/ \E u \in CollabUsers : EditCommit(u)

EditSpec == EditInit /\ [][EditNext]_vars

\* The users whose edit request was answered with the edited itinerary.
Edited == {u \in CollabUsers : call[u].op = "edit" /\ call[u].status = 200}

\* The stored activity that the request of u named carries its updates.
Kept(u) ==
    \E k \in DOMAIN itinerary :
        /\ itinerary[k].day = call[u].day
        /\ LET activity == itinerary[k].activities[call[u].activityIndex + 1]
           IN  \A f \in DOMAIN call[u].updates : activity[f] = call[u].updates[f]

(***************************************************************************)
(* C29.  Shared editing preserves every collaborator's edit: when the      *)
(* owner or editors have sent edit requests for different activities of    *)
(* the trip and every request is answered, the stored itinerary contains   *)
(* every one of the updates, whatever the interleaving was.                *)
(***************************************************************************)
C29_AllEditsKept ==
    (\A u \in CollabUsers : call[u].stage # "update")
        => \A u \in Edited :
               (\A v \in Edited \ {u} : call[v].activityIndex # call[u].activityIndex)
                   => Kept(u)


\* ------------------------------------------------------ POST /:tripId/vote
\* ActivityVote.id: one row per (tripId, day, activityIndex, userId) at most
\* (ActivityVote_tripId_day_activityIndex_userId_key); the id is modelled by
\* the key.
VoteIdOf(tripId, day, activityIndex, userId) == <<tripId, day, activityIndex, userId>>

\* The stored votes of a user on an activity of trip "t1".
VotesOf(u, day, activityIndex) ==
    {v \in activityVote : v.id = VoteIdOf("t1", day, activityIndex, u)}

\* Lines 309-323: the body is validated, then canAccessTrip, 403.
VoteStart(u, day, activityIndex, vote) ==
    /\ Ready(u)
    /\ IF vote \notin {"up", "down"}
       THEN call' = [call EXCEPT ![u] = Answer("vote", 400, "Vote must be \"up\" or \"down\"")]
       ELSE IF ~CanAccessTrip(u, "t1").access
       THEN call' = [call EXCEPT ![u] = Answer("vote", 403, "Access denied")]
       ELSE call' = [call EXCEPT ![u] =
                        [NoCall EXCEPT !.op = "vote", !.stage = "find", !.day = day,
                                       !.activityIndex = activityIndex, !.vote = vote]]
    /\ UNCHANGED <<budgetVars, tripCollaborator, activityVote, itinerary>>

\* Lines 325-335: activityVote.findUnique by the key.
VoteFind(u) ==
    /\ call[u].op = "vote"
    /\ call[u].stage = "find"
    /\ LET found == VotesOf(u, call[u].day, call[u].activityIndex)
       IN  IF found = {}
           THEN call' = [call EXCEPT ![u] = [@ EXCEPT !.stage = "write", !.existing = ""]]
           ELSE \E existingVote \in found :
                  call' = [call EXCEPT ![u] =
                              [@ EXCEPT !.stage = "write", !.existing = existingVote.vote]]
    /\ UNCHANGED <<budgetVars, tripCollaborator, activityVote, itinerary>>

\* A vote of the same value left as it is (an upsert) instead of removed.
VoteCommit_Upsert(u) ==
    /\ call[u].op = "vote"
    /\ call[u].stage = "write"
    /\ LET id == VoteIdOf("t1", call[u].day, call[u].activityIndex, u)
           row == [id |-> id, tripId |-> "t1", day |-> call[u].day,
                   activityIndex |-> call[u].activityIndex, userId |-> u,
                   vote |-> call[u].vote]
       IN  /\ activityVote' = {v \in activityVote : v.id # id} \cup {row}
           /\ call' = [call EXCEPT ![u] =
                          [@ EXCEPT !.stage = "done", !.status = 200,
                                    !.message = IF call[u].existing = ""
                                                THEN "created" ELSE "updated"]]
    /\ UNCHANGED <<budgetVars, tripCollaborator, itinerary>>

\* Lines 337-363: delete the vote found when it has the value of the
\* request, update it when it has the other value, create one when none was
\* found.  A delete or an update of a row that is gone throws, and so does a
\* create against the unique key; the catch answers 500.
VoteCommit(u) ==
    /\ call[u].op = "vote"
    /\ call[u].stage = "write"
    /\ LET id == VoteIdOf("t1", call[u].day, call[u].activityIndex, u)
           row == [id |-> id, tripId |-> "t1", day |-> call[u].day,
                   activityIndex |-> call[u].activityIndex, userId |-> u,
                   vote |-> call[u].vote]
           stored == \E v \in activityVote : v.id = id
           failed == [call EXCEPT ![u] = Answer("vote", 500, "Failed to vote")]
           done(action) == [call EXCEPT ![u] =
                               [@ EXCEPT !.stage = "done", !.status = 200,
                                         !.message = action]]
       IN  IF call[u].existing # ""
           THEN IF ~stored
                THEN call' = failed /\ UNCHANGED activityVote
                ELSE IF call[u].existing = call[u].vote
                THEN /\ activityVote' = {v \in activityVote : v.id # id}
                     /\ call' = done("removed")
                ELSE /\ activityVote' = {v \in activityVote : v.id # id} \cup {row}
                     /\ call' = done("updated")
           ELSE IF stored
                THEN call' = failed /\ UNCHANGED activityVote
                ELSE /\ activityVote' = activityVote \cup {row}
                     /\ call' = done("created")
    /\ UNCHANGED <<budgetVars, tripCollaborator, itinerary>>

\* req.body.vote: the two votes and a value that is neither.
VoteChoices == {"up", "down", "maybe"}

VoteInit ==
    /\ NoBudget
    /\ \E row \in InviteStates : tripCollaborator = {row}
    /\ activityVote = {}
    /\ itinerary = SeedItinerary
    /\ call = [u \in CollabUsers |-> NoCall]

\* The votes are on the first activity of day 1.
VoteNext ==
    \/ \E u \in CollabUsers, vote \in VoteChoices : VoteStart(u, 1, 0, vote)
    \/ \E u \in CollabUsers : VoteFind(u)
    \/ \E u \in CollabUsers : VoteCommit(u)

VoteSpec == VoteInit /\ [][VoteNext]_vars

(***************************************************************************)
(* C30.  Activity votes toggle: at most one vote is stored for each (trip, *)
(* day, activityIndex, user); a vote request that is carried out while no  *)
(* vote is stored creates the vote, one with the value of the stored vote  *)
(* removes it, and one with the other value replaces it, so that the same  *)
(* vote cast twice in a row leaves no vote.  (The requests of one user     *)
(* follow one another.)                                                    *)
(***************************************************************************)
C30_VoteToggles ==
    [][/\ \A v, w \in activityVote' :
              (v.tripId = w.tripId /\ v.day = w.day /\ v.activityIndex = w.activityIndex
                   /\ v.userId = w.userId) => v = w
       /\ \A u \in CollabUsers :
              (call[u].op = "vote" /\ call[u].stage = "write" /\ call'[u].stage = "done")
                  => LET before == VotesOf(u, call[u].day, call[u].activityIndex)
                         after == VotesOf(u, call[u].day, call[u].activityIndex)'
                         others == {v \in activityVote : v \notin before}
                     IN  /\ call'[u].status = 200
                         /\ {v \in activityVote' : v \notin after} = others
                         /\ IF before = {}
                            THEN /\ call'[u].message = "created"
                                 /\ \E v \in after : after = {v} /\ v.vote = call[u].vote
                            ELSE IF \E v \in before : v.vote = call[u].vote
                            THEN call'[u].message = "removed" /\ after = {}
                            ELSE /\ call'[u].message = "updated"
                                 /\ \E v \in after : after = {v} /\ v.vote = call[u].vote]_vars

\* A user has cast the same vote twice in a row and has no vote stored,
\* while another user's vote is stored.
C30_Witness ==
    \E u, w \in CollabUsers :
        /\ u # w
        /\ call[u].op = "vote"
        /\ call[u].message = "removed"
        /\ call[u].vote = "up"
        /\ VotesOf(u, 1, 0) = {}
        /\ \E v \in VotesOf(w, 1, 0) : v.vote = "down"
        /\ call[w].message = "updated"

====
